---- MODULE Spec2Model ----
(***************************************************************************)
(* Model of the exchange-rate service: the in-memory Rate Cache            *)
(* (internal/adapter/cache/memory.go), the Rate Provider client with its   *)
(* latest-rate memo and the two quote-table extractors                     *)
(* (internal/adapter/repository/exchange_api.go) and the Exchange          *)
(* Resolution Service (service package).                                   *)
(*                                                                         *)
(* Time is an integer count of ticks; a calendar day (UTC) is TicksPerDay  *)
(* ticks.  A float64 is an extended non-negative fraction [n, d]: d = 0    *)
(* with n > 0 is +Inf and 0/0 is NaN, so that IEEE division by zero is a   *)
(* value and not an error, as in Go.  A Go pointer-or-nil and an error are *)
(* sequences of length at most one.                                        *)
(***************************************************************************)
EXTENDS Integers, Sequences, FiniteSets, TLC

VARIABLES now, cacheMap, latestRates, last, lastSet, mutex, pc, refresher, tickerC, ctxDone

vars == <<now, cacheMap, latestRates, last, lastSet, mutex, pc, refresher, tickerC, ctxDone>>

---------------------------------------------------------------------------
(* Bounds of the model *)

\* the clock runs over 0..MaxNow
MaxNow == 2
\* ticks in one UTC calendar day
TicksPerDay == 2
\* the configured cache TTL, in ticks
cacheTTL == 1
\* longest date range a range request of the model spans, in days
MaxRangeDays == 2
\* the goroutines that call the cache concurrently
NumThreads == 3

(* Program constants *)

\* validateDate: today.AddDate(0, 0, -90)
MaxAgeDays == 90

USD == "USD"
INR == "INR"
EUR == "EUR"
JPY == "JPY"
GBP == "GBP"

SupportedCurrencies == <<USD, INR, EUR, JPY, GBP>>

\* mutant: any three-letter code passes, the format is checked and not the membership
IsSupported_ByFormat(c) == c \in {"USD", "INR", "EUR", "JPY", "GBP", "XYZ"}

IsSupported(c) == \E i \in 1..Len(SupportedCurrencies) : c = SupportedCurrencies[i]

Nil == <<>>

---------------------------------------------------------------------------
(* float64 arithmetic on extended fractions *)

RECURSIVE GCD(_, _)
GCD(a, b) == IF b = 0 THEN a ELSE GCD(b, a % b)

Norm(n, d) ==
    IF n = 0 /\ d = 0 THEN [n |-> 0, d |-> 0]
    ELSE LET g == GCD(n, d) IN [n |-> n \div g, d |-> d \div g]

F(q) == [n |-> q, d |-> 1]

FDiv(x, y) == Norm(x.n * y.d, x.d * y.n)

FMul(x, y) == Norm(x.n * y.n, x.d * y.d)

IsFinite(x) == x.d # 0

---------------------------------------------------------------------------
(* time.Time *)

\* t.UTC().Truncate(24 * time.Hour)
Truncate(t) == t - (t % TicksPerDay)

\* t.AddDate(0, 0, days)
AddDays(t, days) == t + days * TicksPerDay

\* t.Format("2006-01-02"): the calendar day, the time of day is dropped
FormatDate(t) == t \div TicksPerDay

\* the zero time.Time (year 1), far before any instant of the model
ZeroTime == AddDays(0, -(MaxAgeDays * 10))

IsZero(t) == t = ZeroTime

---------------------------------------------------------------------------
(* maps *)

EmptyMap == [k \in {} |-> Nil]

Put(m, k, v) == (k :> v) @@ m

Remove(m, ks) == [x \in (DOMAIN m) \ ks |-> m[x]]

Pair(base, target) == [BaseCurrency |-> base, TargetCurrency |-> target]

---------------------------------------------------------------------------
(* MemoryCache *)

\* ticker.C before time.NewTicker has run: there is no channel to receive from
NoTicker == -1

\* c.mutex (sync.RWMutex): whether a writer holds it and how many readers hold it
Unlocked == [writer |-> FALSE, readers |-> 0]

Threads == 1..NumThreads

\* a goroutine that is in no call of the cache
Idle == [op |-> "none", at |-> "idle", arg |-> <<>>, ret |-> <<>>]

getCacheKey(pair, date) == <<pair.BaseCurrency, pair.TargetCurrency, FormatDate(date)>>

\* mutant: an entry whose age is exactly the TTL is already expired
Expired_AtTTL(rate, t) == t - rate.LastUpdated >= cacheTTL

\* time.Since(rate.LastUpdated) > c.cacheTTL
Expired(rate, t) == t - rate.LastUpdated > cacheTTL

CacheGet(c, t, pair, date) ==
    LET key == getCacheKey(pair, date) IN
    IF key \in DOMAIN c
    THEN IF Expired(c[key], t)
         THEN [rate |-> Nil, found |-> FALSE]
         ELSE [rate |-> <<c[key]>>, found |-> TRUE]
    ELSE [rate |-> Nil, found |-> FALSE]

\* mutant: a lookup that finds its entry expired deletes it
CacheAfterGet_DropExpired(c, t, pair, date) ==
    IF getCacheKey(pair, date) \in DOMAIN c /\ Expired(c[getCacheKey(pair, date)], t)
    THEN Remove(c, {getCacheKey(pair, date)})
    ELSE c

\* the map Get leaves behind: it reads c.cacheMap[key] under the read lock and writes nothing
CacheAfterGet(c, t, pair, date) == c

\* mutant: a key that holds an entry keeps it, the new rate is dropped
CacheSet_FirstWins(c, rate) ==
    LET pair == Pair(rate.BaseCurrency, rate.TargetCurrency)
        key  == getCacheKey(pair, rate.Date)
    IN  IF key \in DOMAIN c
        THEN [cache |-> c, err |-> Nil]
        ELSE [cache |-> Put(c, key, rate), err |-> Nil]

\* mutant: an entry that was computed later than the new rate is kept
CacheSet_KeepNewer(c, rate) ==
    LET pair == Pair(rate.BaseCurrency, rate.TargetCurrency)
        key  == getCacheKey(pair, rate.Date)
    IN  IF key \in DOMAIN c /\ c[key].LastUpdated > rate.LastUpdated
        THEN [cache |-> c, err |-> Nil]
        ELSE [cache |-> Put(c, key, rate), err |-> Nil]

CacheSet(c, rate) ==
    LET pair == Pair(rate.BaseCurrency, rate.TargetCurrency)
        key  == getCacheKey(pair, rate.Date)
    IN  [cache |-> Put(c, key, rate), err |-> Nil]

\* ports.RateCache.Set as the service calls it: setErr is the error the implementation behind
\* the port reports, nil for MemoryCache; a write that fails stores nothing
PortSet(c, rate, setErr) ==
    IF setErr = Nil THEN CacheSet(c, rate) ELSE [cache |-> c, err |-> setErr]

\* mutant: the sweep also removes the entries whose age is exactly the TTL
CacheClearExpired_AtTTL(c, t) ==
    LET expiredKeys == {key \in DOMAIN c : t - c[key].LastUpdated >= cacheTTL}
    IN  [cache |-> Remove(c, expiredKeys), err |-> Nil, count |-> Cardinality(expiredKeys)]

\* mutant: a sweep removes one expired entry and leaves the other expired entries for later
CacheClearExpired_OnePerSweep(c, t) ==
    LET expiredKeys == {key \in DOMAIN c : t - c[key].LastUpdated > cacheTTL}
        removed == IF expiredKeys = {} THEN {} ELSE {CHOOSE key \in expiredKeys : TRUE}
    IN  [cache |-> Remove(c, removed), err |-> Nil, count |-> Cardinality(removed)]

CacheClearExpired(c, t) ==
    LET expiredKeys == {key \in DOMAIN c : t - c[key].LastUpdated > cacheTTL}
    IN  [cache |-> Remove(c, expiredKeys), err |-> Nil, count |-> Cardinality(expiredKeys)]

---------------------------------------------------------------------------
(* errors: the sentinels errors.Is recognises in the chain, and the text *)

Err(sentinels, msg) == <<[is |-> sentinels, msg |-> msg]>>

ErrInvalidCurrency    == Err({"ErrInvalidCurrency"}, <<"invalid currency">>)
ErrDateOutOfRange     == Err({"ErrDateOutOfRange"}, <<"date is outside allowed range (older than 90 days)">>)
ErrInvalidDateRange   == Err({"ErrInvalidDateRange"}, <<"invalid date range">>)
ErrInvalidAmount      == Err({"ErrInvalidAmount"}, <<"invalid amount">>)

\* the error of a RateCache implementation whose Set fails
ErrCacheWrite == <<[is |-> {}, msg |-> <<"cache write failed">>]>>

\* mutant: the error of the provider is returned as it came
WrapExternalAPIFailure_Unwrapped(err) == err

\* fmt.Errorf("%w: %v", ErrExternalAPIFailure, err): only the %w operand stays in the chain
WrapExternalAPIFailure(err) ==
    Err({"ErrExternalAPIFailure"}, <<"external API failure">> \o err[1].msg)

\* fmt.Errorf("failed to fetch latest rates: %w", err)
WrapRefresh(err) == Err(err[1].is, <<"failed to fetch latest rates">> \o err[1].msg)

ErrorIs(err, sentinel) == err # Nil /\ sentinel \in err[1].is

---------------------------------------------------------------------------
(* ExchangeAPI: the provider client *)

\* fmt.Sprintf("USD%s", currency)
rateKey(currency) == <<"USD", currency>>

\* fmt.Sprintf("%s-%s", pair.BaseCurrency, pair.TargetCurrency)
memoKey(pair) == <<pair.BaseCurrency, pair.TargetCurrency>>

ExchangeRate(pair, rate, date, t) ==
    [BaseCurrency |-> pair.BaseCurrency, TargetCurrency |-> pair.TargetCurrency,
     Rate |-> rate, Date |-> date, LastUpdated |-> t]

RateNotFound(currency) == Err({}, <<"rate not found for currency", currency>>)

\* an HTTP exchange with the provider: how it ends, and the decoded quote table
HTTPFailures == {"transport", "status", "decode", "unsuccessful"}

HTTPError(outcome) ==
    CASE outcome = "transport"    -> Err({}, <<"failed to send request">>)
      [] outcome = "status"       -> Err({}, <<"API returned non-OK status">>)
      [] outcome = "decode"       -> Err({}, <<"failed to decode response">>)
      [] outcome = "unsuccessful" -> Err({}, <<"API reported failure">>)

fetchAllLatestRates(resp) ==
    IF resp.outcome = "ok"
    THEN [quotes |-> resp.quotes, err |-> Nil]
    ELSE [quotes |-> EmptyMap, err |-> HTTPError(resp.outcome)]

\* mutant: a quote that is absent from the table is read as the zero value of the map
extractRate_DefaultZero(quotes, pair, t, m) ==
    LET q(c) == IF rateKey(c) \in DOMAIN quotes THEN quotes[rateKey(c)] ELSE 0
        rate == IF pair.BaseCurrency = USD THEN F(q(pair.TargetCurrency))
                ELSE IF pair.TargetCurrency = USD THEN FDiv(F(1), F(q(pair.BaseCurrency)))
                ELSE FDiv(F(q(pair.TargetCurrency)), F(q(pair.BaseCurrency)))
        exchangeRate == ExchangeRate(pair, rate, Truncate(t), t)
    IN  [rate |-> <<exchangeRate>>, err |-> Nil, memo |-> Put(m, memoKey(pair), exchangeRate)]

\* mutant: the cross rate is the base quote over the target quote
extractRate_InvertedCross(quotes, pair, t, m) ==
    IF pair.BaseCurrency = USD
    THEN IF rateKey(pair.TargetCurrency) \notin DOMAIN quotes
         THEN [rate |-> Nil, err |-> RateNotFound(pair.TargetCurrency), memo |-> m]
         ELSE LET exchangeRate == ExchangeRate(pair, F(quotes[rateKey(pair.TargetCurrency)]),
                                               Truncate(t), t)
              IN  [rate |-> <<exchangeRate>>, err |-> Nil,
                   memo |-> Put(m, memoKey(pair), exchangeRate)]
    ELSE IF pair.TargetCurrency = USD
    THEN IF rateKey(pair.BaseCurrency) \notin DOMAIN quotes
         THEN [rate |-> Nil, err |-> RateNotFound(pair.BaseCurrency), memo |-> m]
         ELSE LET exchangeRate == ExchangeRate(pair,
                                               FDiv(F(1), F(quotes[rateKey(pair.BaseCurrency)])),
                                               Truncate(t), t)
              IN  [rate |-> <<exchangeRate>>, err |-> Nil,
                   memo |-> Put(m, memoKey(pair), exchangeRate)]
    ELSE IF rateKey(pair.BaseCurrency) \notin DOMAIN quotes
    THEN [rate |-> Nil, err |-> RateNotFound(pair.BaseCurrency), memo |-> m]
    ELSE IF rateKey(pair.TargetCurrency) \notin DOMAIN quotes
    THEN [rate |-> Nil, err |-> RateNotFound(pair.TargetCurrency), memo |-> m]
    ELSE LET crossRate == FDiv(F(quotes[rateKey(pair.BaseCurrency)]),
                               F(quotes[rateKey(pair.TargetCurrency)]))
             exchangeRate == ExchangeRate(pair, crossRate, Truncate(t), t)
         IN  [rate |-> <<exchangeRate>>, err |-> Nil,
              memo |-> Put(m, memoKey(pair), exchangeRate)]

extractRate(quotes, pair, t, m) ==
    IF pair.BaseCurrency = USD
    THEN IF rateKey(pair.TargetCurrency) \notin DOMAIN quotes
         THEN [rate |-> Nil, err |-> RateNotFound(pair.TargetCurrency), memo |-> m]
         ELSE LET rate == F(quotes[rateKey(pair.TargetCurrency)])
                  exchangeRate == ExchangeRate(pair, rate, Truncate(t), t)
              IN  [rate |-> <<exchangeRate>>, err |-> Nil,
                   memo |-> Put(m, memoKey(pair), exchangeRate)]
    ELSE IF pair.TargetCurrency = USD
    THEN IF rateKey(pair.BaseCurrency) \notin DOMAIN quotes
         THEN [rate |-> Nil, err |-> RateNotFound(pair.BaseCurrency), memo |-> m]
         ELSE LET inverseRate == FDiv(F(1), F(quotes[rateKey(pair.BaseCurrency)]))
                  exchangeRate == ExchangeRate(pair, inverseRate, Truncate(t), t)
              IN  [rate |-> <<exchangeRate>>, err |-> Nil,
                   memo |-> Put(m, memoKey(pair), exchangeRate)]
    ELSE IF rateKey(pair.BaseCurrency) \notin DOMAIN quotes
    THEN [rate |-> Nil, err |-> RateNotFound(pair.BaseCurrency), memo |-> m]
    ELSE IF rateKey(pair.TargetCurrency) \notin DOMAIN quotes
    THEN [rate |-> Nil, err |-> RateNotFound(pair.TargetCurrency), memo |-> m]
    ELSE LET crossRate == FDiv(F(quotes[rateKey(pair.TargetCurrency)]),
                               F(quotes[rateKey(pair.BaseCurrency)]))
             exchangeRate == ExchangeRate(pair, crossRate, Truncate(t), t)
         IN  [rate |-> <<exchangeRate>>, err |-> Nil,
              memo |-> Put(m, memoKey(pair), exchangeRate)]

\* mutant: for a cross pair the target quote is looked for before the base quote
extractHistoricalRate_TargetFirst(quotes, pair, date, t) ==
    IF pair.BaseCurrency = USD
    THEN IF rateKey(pair.TargetCurrency) \notin DOMAIN quotes
         THEN [rate |-> Nil, err |-> RateNotFound(pair.TargetCurrency)]
         ELSE [rate |-> <<ExchangeRate(pair, F(quotes[rateKey(pair.TargetCurrency)]), date, t)>>,
               err |-> Nil]
    ELSE IF pair.TargetCurrency = USD
    THEN IF rateKey(pair.BaseCurrency) \notin DOMAIN quotes
         THEN [rate |-> Nil, err |-> RateNotFound(pair.BaseCurrency)]
         ELSE [rate |-> <<ExchangeRate(pair, FDiv(F(1), F(quotes[rateKey(pair.BaseCurrency)])), date, t)>>,
               err |-> Nil]
    ELSE IF rateKey(pair.TargetCurrency) \notin DOMAIN quotes
    THEN [rate |-> Nil, err |-> RateNotFound(pair.TargetCurrency)]
    ELSE IF rateKey(pair.BaseCurrency) \notin DOMAIN quotes
    THEN [rate |-> Nil, err |-> RateNotFound(pair.BaseCurrency)]
    ELSE [rate |-> <<ExchangeRate(pair,
                                  FDiv(F(quotes[rateKey(pair.TargetCurrency)]),
                                       F(quotes[rateKey(pair.BaseCurrency)])), date, t)>>,
          err |-> Nil]

extractHistoricalRate(quotes, pair, date, t) ==
    IF pair.BaseCurrency = USD
    THEN IF rateKey(pair.TargetCurrency) \notin DOMAIN quotes
         THEN [rate |-> Nil, err |-> RateNotFound(pair.TargetCurrency)]
         ELSE [rate |-> <<ExchangeRate(pair, F(quotes[rateKey(pair.TargetCurrency)]), date, t)>>,
               err |-> Nil]
    ELSE IF pair.TargetCurrency = USD
    THEN IF rateKey(pair.BaseCurrency) \notin DOMAIN quotes
         THEN [rate |-> Nil, err |-> RateNotFound(pair.BaseCurrency)]
         ELSE [rate |-> <<ExchangeRate(pair, FDiv(F(1), F(quotes[rateKey(pair.BaseCurrency)])), date, t)>>,
               err |-> Nil]
    ELSE IF rateKey(pair.BaseCurrency) \notin DOMAIN quotes
    THEN [rate |-> Nil, err |-> RateNotFound(pair.BaseCurrency)]
    ELSE IF rateKey(pair.TargetCurrency) \notin DOMAIN quotes
    THEN [rate |-> Nil, err |-> RateNotFound(pair.TargetCurrency)]
    ELSE [rate |-> <<ExchangeRate(pair,
                                  FDiv(F(quotes[rateKey(pair.TargetCurrency)]),
                                       F(quotes[rateKey(pair.BaseCurrency)])),
                                  date, t)>>,
          err |-> Nil]

\* mutant: the memo is not consulted, every call fetches the table
RepoFetchLatestRate_NoMemo(m, t, pair, resp) ==
    LET fetched == fetchAllLatestRates(resp)
        http    == <<[fn |-> "http.live", arg |-> <<>>]>>
    IN  IF fetched.err # Nil
        THEN [rate |-> Nil, err |-> fetched.err, memo |-> m, calls |-> http]
        ELSE LET x == extractRate(fetched.quotes, pair, t, m)
             IN  [rate |-> x.rate, err |-> x.err, memo |-> x.memo, calls |-> http]

\* mutant: a memo entry older than the cache TTL is not served, the table is fetched again
RepoFetchLatestRate_ExpireMemo(m, t, pair, resp) ==
    IF memoKey(pair) \in DOMAIN m /\ t - m[memoKey(pair)].LastUpdated <= cacheTTL
    THEN [rate |-> <<m[memoKey(pair)]>>, err |-> Nil, memo |-> m, calls |-> <<>>]
    ELSE LET fetched == fetchAllLatestRates(resp)
             http    == <<[fn |-> "http.live", arg |-> <<>>]>>
         IN  IF fetched.err # Nil
             THEN [rate |-> Nil, err |-> fetched.err, memo |-> m, calls |-> http]
             ELSE LET x == extractRate(fetched.quotes, pair, t, m)
                  IN  [rate |-> x.rate, err |-> x.err, memo |-> x.memo, calls |-> http]

\* calls is the trace of the outgoing calls the operation made, in order; the service notes
\* the error a call of the repository returned as "repo.returned"
RepoFetchLatestRate(m, t, pair, resp) ==
    IF memoKey(pair) \in DOMAIN m
    THEN [rate |-> <<m[memoKey(pair)]>>, err |-> Nil, memo |-> m, calls |-> <<>>]
    ELSE LET fetched == fetchAllLatestRates(resp)
             http    == <<[fn |-> "http.live", arg |-> <<>>]>>
         IN  IF fetched.err # Nil
             THEN [rate |-> Nil, err |-> fetched.err, memo |-> m, calls |-> http]
             ELSE LET x == extractRate(fetched.quotes, pair, t, m)
                  IN  [rate |-> x.rate, err |-> x.err, memo |-> x.memo, calls |-> http]

\* mutant: the record is stamped with the instant of the fetch, not with the requested date
RepoFetchHistoricalRate_StampFetchTime(t, pair, date, resp) ==
    LET http == <<[fn |-> "http.historical", arg |-> FormatDate(date)]>>
    IN  IF resp.outcome # "ok"
        THEN [rate |-> Nil, err |-> HTTPError(resp.outcome), calls |-> http]
        ELSE LET tempPair == Pair(pair.BaseCurrency, pair.TargetCurrency)
                 x == extractHistoricalRate(resp.quotes, tempPair, t, t)
             IN  [rate |-> x.rate, err |-> x.err, calls |-> http]

RepoFetchHistoricalRate(t, pair, date, resp) ==
    LET http == <<[fn |-> "http.historical", arg |-> FormatDate(date)]>>
    IN  IF resp.outcome # "ok"
        THEN [rate |-> Nil, err |-> HTTPError(resp.outcome), calls |-> http]
        ELSE LET tempPair == Pair(pair.BaseCurrency, pair.TargetCurrency)
                 x == extractHistoricalRate(resp.quotes, tempPair, date, t)
             IN  [rate |-> x.rate, err |-> x.err, calls |-> http]

Call(fn, arg) == [fn |-> fn, arg |-> arg]

\* the for loop of FetchHistoricalRates: one FetchHistoricalRate per day, a failing day is skipped
RECURSIVE HistoricalLoop(_, _, _, _, _)
HistoricalLoop(t, request, respOf, currentDate, acc) ==
    IF currentDate > request.EndDate
    THEN acc
    ELSE LET pair  == Pair(request.BaseCurrency, request.TargetCurrency)
             r     == RepoFetchHistoricalRate(t, pair, currentDate, respOf[FormatDate(currentDate)])
             calls == acc.calls \o r.calls
         IN  IF r.err # Nil
             THEN HistoricalLoop(t, request, respOf, AddDays(currentDate, 1),
                                 [rates |-> acc.rates, calls |-> calls])
             ELSE HistoricalLoop(t, request, respOf, AddDays(currentDate, 1),
                                 [rates |-> Put(acc.rates, FormatDate(currentDate), r.rate[1]),
                                  calls |-> calls])

\* mutant: a day that failed makes the whole request fail
RepoFetchHistoricalRates_FailOnMissingDay(t, request, respOf) ==
    LET out == HistoricalLoop(t, request, respOf, request.StartDate,
                              [rates |-> EmptyMap, calls |-> <<>>])
    IN  IF Cardinality(DOMAIN out.rates) < Len(out.calls)
        THEN [result |-> Nil, err |-> HTTPError("status"), calls |-> out.calls]
        ELSE [result |-> <<[BaseCurrency |-> request.BaseCurrency,
                            TargetCurrency |-> request.TargetCurrency,
                            Rates |-> out.rates]>>,
              err |-> Nil, calls |-> out.calls]

RepoFetchHistoricalRates(t, request, respOf) ==
    LET out == HistoricalLoop(t, request, respOf, request.StartDate,
                              [rates |-> EmptyMap, calls |-> <<>>])
    IN  [result |-> <<[BaseCurrency |-> request.BaseCurrency,
                       TargetCurrency |-> request.TargetCurrency,
                       Rates |-> out.rates]>>,
         err |-> Nil, calls |-> out.calls]

\* the nested range loops of RefreshRates over model.SupportedCurrencies
RECURSIVE RefreshLoop(_, _, _, _, _)
RefreshLoop(quotes, t, m, i, j) ==
    IF i > Len(SupportedCurrencies) THEN m
    ELSE IF j > Len(SupportedCurrencies) THEN RefreshLoop(quotes, t, m, i + 1, 1)
    ELSE IF SupportedCurrencies[i] = SupportedCurrencies[j] THEN RefreshLoop(quotes, t, m, i, j + 1)
    ELSE RefreshLoop(quotes, t,
                     extractRate(quotes, Pair(SupportedCurrencies[i], SupportedCurrencies[j]), t, m).memo,
                     i, j + 1)

\* mutant: a refresh whose fetch fails puts the memo back as it was
RepoRefreshRates_RestoreOnFailure(m, t, resp) ==
    LET cleared == EmptyMap
        fetched == fetchAllLatestRates(resp)
        http    == <<Call("http.live", <<>>)>>
    IN  IF fetched.err # Nil
        THEN [err |-> WrapRefresh(fetched.err), memo |-> m, calls |-> http]
        ELSE [err |-> Nil, memo |-> RefreshLoop(fetched.quotes, t, cleared, 1, 1), calls |-> http]

\* mutant: the memo is not cleared, the refresh writes over what it finds
RepoRefreshRates_KeepOld(m, t, resp) ==
    LET cleared == m
        fetched == fetchAllLatestRates(resp)
        http    == <<Call("http.live", <<>>)>>
    IN  IF fetched.err # Nil
        THEN [err |-> WrapRefresh(fetched.err), memo |-> cleared, calls |-> http]
        ELSE [err |-> Nil, memo |-> RefreshLoop(fetched.quotes, t, cleared, 1, 1), calls |-> http]

RepoRefreshRates(m, t, resp) ==
    LET cleared == EmptyMap
        fetched == fetchAllLatestRates(resp)
        http    == <<Call("http.live", <<>>)>>
    IN  IF fetched.err # Nil
        THEN [err |-> WrapRefresh(fetched.err), memo |-> cleared, calls |-> http]
        ELSE [err |-> Nil, memo |-> RefreshLoop(fetched.quotes, t, cleared, 1, 1), calls |-> http]

---------------------------------------------------------------------------
(* date validation *)

\* mutant: the window is counted from the instant of the call, today is not truncated to the day
validateDate_NoTruncate(date, t) ==
    IF date < AddDays(t, -MaxAgeDays) THEN ErrDateOutOfRange ELSE Nil

\* service.validateDate
validateDate(date, t) ==
    LET today == Truncate(t)
        ninetyDaysAgo == AddDays(today, -MaxAgeDays)
    IN  IF date < ninetyDaysAgo THEN ErrDateOutOfRange ELSE Nil

\* mutant: the order of the endpoints is checked before the window
validateDateRange_OrderFirst(startDate, endDate, t) ==
    IF startDate > endDate THEN ErrInvalidDateRange
    ELSE IF validateDate(startDate, t) # Nil THEN validateDate(startDate, t)
    ELSE validateDate(endDate, t)

\* service.validateDateRange
validateDateRange(startDate, endDate, t) ==
    IF validateDate(startDate, t) # Nil THEN validateDate(startDate, t)
    ELSE IF validateDate(endDate, t) # Nil THEN validateDate(endDate, t)
    ELSE IF startDate > endDate THEN ErrInvalidDateRange
    ELSE Nil

\* utils.ValidateDate
ValidateDate(date, t) ==
    LET today == Truncate(t)
        ninetyDaysAgo == AddDays(today, -MaxAgeDays)
    IN  ~(date < ninetyDaysAgo)

---------------------------------------------------------------------------
(* ExchangeService: every operation yields its return values, the cache and
   the memo it leaves, and the trace of the calls it made *)

\* mutant: the provider is asked even when the cache lookup is a hit
SvcGetLatestRate_AlwaysFetch(c, m, t, from, to, resp, setErr) ==
    IF ~IsSupported(from) \/ ~IsSupported(to)
    THEN [rate |-> Nil, err |-> ErrInvalidCurrency, cache |-> c, memo |-> m, calls |-> <<>>]
    ELSE LET pair  == Pair(from, to)
             today == Truncate(t)
             got   == CacheGet(c, t, pair, today)
             c1    == <<Call("cache.Get", getCacheKey(pair, today))>>
         IN  IF got.found /\ ~got.found
             THEN [rate |-> got.rate, err |-> Nil, cache |-> c, memo |-> m, calls |-> c1]
             ELSE LET fetched(f) ==
                          LET c2 == c1 \o <<Call("repo.FetchLatestRate", pair)>> \o f.calls
                                       \o <<Call("repo.returned", f.err)>>
                          IN  IF f.err # Nil
                              THEN [rate |-> Nil, err |-> WrapExternalAPIFailure(f.err),
                                    cache |-> c, memo |-> f.memo, calls |-> c2]
                              ELSE LET stored(s) ==
                                           [rate |-> f.rate, err |-> Nil,
                                            cache |-> s.cache, memo |-> f.memo,
                                            calls |-> c2 \o <<Call("cache.Set", f.rate[1])>>
                                                      \o (IF s.err # Nil
                                                          THEN <<Call("log.Error", s.err)>>
                                                          ELSE <<>>)]
                                   IN  stored(PortSet(c, f.rate[1], setErr))
                  IN  fetched(RepoFetchLatestRate(m, t, pair, resp))

SvcGetLatestRate(c, m, t, from, to, resp, setErr) ==
    IF ~IsSupported(from) \/ ~IsSupported(to)
    THEN [rate |-> Nil, err |-> ErrInvalidCurrency, cache |-> c, memo |-> m, calls |-> <<>>]
    ELSE LET pair  == Pair(from, to)
             today == Truncate(t)
             got   == CacheGet(c, t, pair, today)
             c1    == <<Call("cache.Get", getCacheKey(pair, today))>>
         IN  IF got.found
             THEN [rate |-> got.rate, err |-> Nil, cache |-> c, memo |-> m, calls |-> c1]
             ELSE LET fetched(f) ==
                          LET c2 == c1 \o <<Call("repo.FetchLatestRate", pair)>> \o f.calls
                                       \o <<Call("repo.returned", f.err)>>
                          IN  IF f.err # Nil
                              THEN [rate |-> Nil, err |-> WrapExternalAPIFailure(f.err),
                                    cache |-> c, memo |-> f.memo, calls |-> c2]
                              ELSE LET stored(s) ==
                                           [rate |-> f.rate, err |-> Nil,
                                            cache |-> s.cache, memo |-> f.memo,
                                            calls |-> c2 \o <<Call("cache.Set", f.rate[1])>>
                                                      \o (IF s.err # Nil
                                                          THEN <<Call("log.Error", s.err)>>
                                                          ELSE <<>>)]
                                   IN  stored(PortSet(c, f.rate[1], setErr))
                  IN  fetched(RepoFetchLatestRate(m, t, pair, resp))

\* mutant: the error of the cache write is returned to the caller
SvcGetHistoricalRate_SurfaceSetError(c, m, t, from, to, date, resp, setErr) ==
    IF ~IsSupported(from) \/ ~IsSupported(to)
    THEN [rate |-> Nil, err |-> ErrInvalidCurrency, cache |-> c, memo |-> m, calls |-> <<>>]
    ELSE IF validateDate(date, t) # Nil
    THEN [rate |-> Nil, err |-> validateDate(date, t), cache |-> c, memo |-> m, calls |-> <<>>]
    ELSE LET pair == Pair(from, to)
             normalizedDate == Truncate(date)
             got  == CacheGet(c, t, pair, normalizedDate)
             c1   == <<Call("cache.Get", getCacheKey(pair, normalizedDate))>>
         IN  IF got.found
             THEN [rate |-> got.rate, err |-> Nil, cache |-> c, memo |-> m, calls |-> c1]
             ELSE LET fetched(f) ==
                          LET c2 == c1 \o <<Call("repo.FetchHistoricalRate",
                                                  <<pair, normalizedDate>>)>> \o f.calls
                                       \o <<Call("repo.returned", f.err)>>
                          IN  IF f.err # Nil
                              THEN [rate |-> Nil, err |-> WrapExternalAPIFailure(f.err),
                                    cache |-> c, memo |-> m, calls |-> c2]
                              ELSE LET stored(s) ==
                                           [rate |-> IF s.err # Nil THEN Nil ELSE f.rate,
                                            err |-> s.err,
                                            cache |-> s.cache, memo |-> m,
                                            calls |-> c2 \o <<Call("cache.Set", f.rate[1])>>
                                                      \o (IF s.err # Nil
                                                          THEN <<Call("log.Error", s.err)>>
                                                          ELSE <<>>)]
                                   IN  stored(PortSet(c, f.rate[1], setErr))
                  IN  fetched(RepoFetchHistoricalRate(t, pair, normalizedDate, resp))

SvcGetHistoricalRate(c, m, t, from, to, date, resp, setErr) ==
    IF ~IsSupported(from) \/ ~IsSupported(to)
    THEN [rate |-> Nil, err |-> ErrInvalidCurrency, cache |-> c, memo |-> m, calls |-> <<>>]
    ELSE IF validateDate(date, t) # Nil
    THEN [rate |-> Nil, err |-> validateDate(date, t), cache |-> c, memo |-> m, calls |-> <<>>]
    ELSE LET pair == Pair(from, to)
             normalizedDate == Truncate(date)
             got  == CacheGet(c, t, pair, normalizedDate)
             c1   == <<Call("cache.Get", getCacheKey(pair, normalizedDate))>>
         IN  IF got.found
             THEN [rate |-> got.rate, err |-> Nil, cache |-> c, memo |-> m, calls |-> c1]
             ELSE LET fetched(f) ==
                          LET c2 == c1 \o <<Call("repo.FetchHistoricalRate",
                                                  <<pair, normalizedDate>>)>> \o f.calls
                                       \o <<Call("repo.returned", f.err)>>
                          IN  IF f.err # Nil
                              THEN [rate |-> Nil, err |-> WrapExternalAPIFailure(f.err),
                                    cache |-> c, memo |-> m, calls |-> c2]
                              ELSE LET stored(s) ==
                                           [rate |-> f.rate, err |-> Nil,
                                            cache |-> s.cache, memo |-> m,
                                            calls |-> c2 \o <<Call("cache.Set", f.rate[1])>>
                                                      \o (IF s.err # Nil
                                                          THEN <<Call("log.Error", s.err)>>
                                                          ELSE <<>>)]
                                   IN  stored(PortSet(c, f.rate[1], setErr))
                  IN  fetched(RepoFetchHistoricalRate(t, pair, normalizedDate, resp))

\* mutant: the days a range request fetched are stored in the Rate Cache
SvcGetHistoricalRates_CacheDays(c, m, t, request, respOf) ==
    IF ~IsSupported(request.BaseCurrency) \/ ~IsSupported(request.TargetCurrency)
    THEN [result |-> Nil, err |-> ErrInvalidCurrency, cache |-> c, memo |-> m, calls |-> <<>>]
    ELSE IF validateDateRange(request.StartDate, request.EndDate, t) # Nil
    THEN [result |-> Nil, err |-> validateDateRange(request.StartDate, request.EndDate, t),
          cache |-> c, memo |-> m, calls |-> <<>>]
    ELSE LET fetched(f) ==
                 LET c1 == <<Call("repo.FetchHistoricalRates", request)>> \o f.calls
                     days == f.result[1].Rates
                     stored == [k \in {<<request.BaseCurrency, request.TargetCurrency, d>> :
                                          d \in DOMAIN days} |-> days[k[3]]] @@ c
                 IN  [result |-> f.result, err |-> Nil, cache |-> stored, memo |-> m,
                      calls |-> c1]
         IN  fetched(RepoFetchHistoricalRates(t, request, respOf))

SvcGetHistoricalRates(c, m, t, request, respOf) ==
    IF ~IsSupported(request.BaseCurrency) \/ ~IsSupported(request.TargetCurrency)
    THEN [result |-> Nil, err |-> ErrInvalidCurrency, cache |-> c, memo |-> m, calls |-> <<>>]
    ELSE IF validateDateRange(request.StartDate, request.EndDate, t) # Nil
    THEN [result |-> Nil, err |-> validateDateRange(request.StartDate, request.EndDate, t),
          cache |-> c, memo |-> m, calls |-> <<>>]
    ELSE LET fetched(f) ==
                 LET c1 == <<Call("repo.FetchHistoricalRates", request)>> \o f.calls
                 IN  IF f.err # Nil
                     THEN [result |-> Nil, err |-> WrapExternalAPIFailure(f.err),
                           cache |-> c, memo |-> m, calls |-> c1]
                     ELSE [result |-> f.result, err |-> Nil, cache |-> c, memo |-> m,
                           calls |-> c1]
         IN  fetched(RepoFetchHistoricalRates(t, request, respOf))

\* mutant: the rate is always the latest one, the date of the request is only validated
convertResolve_AlwaysLatest(c, m, t, request, resp, setErr) ==
    IF ~IsZero(request.Date) /\ validateDate(request.Date, t) # Nil
    THEN [result |-> Nil, err |-> validateDate(request.Date, t), cache |-> c, memo |-> m,
          calls |-> <<>>]
    ELSE LET resolved(r) ==
                 LET c1 == <<Call(IF FALSE THEN "service.GetHistoricalRate"
                                                           ELSE "service.GetLatestRate",
                                  Pair(request.FromCurrency, request.ToCurrency))>> \o r.calls
                 IN  IF r.err # Nil
                     THEN [result |-> Nil, err |-> r.err, cache |-> r.cache, memo |-> r.memo,
                           calls |-> c1]
                     ELSE LET rate == r.rate[1]
                              convertedAmount == FMul(F(request.Amount), rate.Rate)
                          IN  [result |-> <<[FromCurrency |-> request.FromCurrency,
                                             ToCurrency   |-> request.ToCurrency,
                                             FromAmount   |-> request.Amount,
                                             ToAmount     |-> convertedAmount,
                                             Rate         |-> rate.Rate,
                                             Date         |-> rate.Date]>>,
                               err |-> Nil, cache |-> r.cache, memo |-> r.memo, calls |-> c1]
         IN  resolved(IF ~IsZero(request.Date) /\ IsZero(request.Date)
                      THEN SvcGetHistoricalRate(c, m, t, request.FromCurrency,
                                                request.ToCurrency, request.Date, resp, setErr)
                      ELSE SvcGetLatestRate(c, m, t, request.FromCurrency,
                                            request.ToCurrency, resp, setErr))

\* ConvertCurrency from the date branch on: the rate is resolved and the amount converted
convertResolve(c, m, t, request, resp, setErr) ==
    IF ~IsZero(request.Date) /\ validateDate(request.Date, t) # Nil
    THEN [result |-> Nil, err |-> validateDate(request.Date, t), cache |-> c, memo |-> m,
          calls |-> <<>>]
    ELSE LET resolved(r) ==
                 LET c1 == <<Call(IF ~IsZero(request.Date) THEN "service.GetHistoricalRate"
                                                           ELSE "service.GetLatestRate",
                                  Pair(request.FromCurrency, request.ToCurrency))>> \o r.calls
                 IN  IF r.err # Nil
                     THEN [result |-> Nil, err |-> r.err, cache |-> r.cache, memo |-> r.memo,
                           calls |-> c1]
                     ELSE LET rate == r.rate[1]
                              convertedAmount == FMul(F(request.Amount), rate.Rate)
                          IN  [result |-> <<[FromCurrency |-> request.FromCurrency,
                                             ToCurrency   |-> request.ToCurrency,
                                             FromAmount   |-> request.Amount,
                                             ToAmount     |-> convertedAmount,
                                             Rate         |-> rate.Rate,
                                             Date         |-> rate.Date]>>,
                               err |-> Nil, cache |-> r.cache, memo |-> r.memo, calls |-> c1]
         IN  resolved(IF ~IsZero(request.Date)
                      THEN SvcGetHistoricalRate(c, m, t, request.FromCurrency,
                                                request.ToCurrency, request.Date, resp, setErr)
                      ELSE SvcGetLatestRate(c, m, t, request.FromCurrency,
                                            request.ToCurrency, resp, setErr))

Rejected(err, c, m) == [result |-> Nil, err |-> err, cache |-> c, memo |-> m, calls |-> <<>>]

\* mutant: the amount is checked before the currencies
SvcConvertCurrency_AmountFirst(c, m, t, request, resp, setErr) ==
    IF request.Amount <= 0
    THEN Rejected(ErrInvalidAmount, c, m)
    ELSE IF ~IsSupported(request.FromCurrency) \/ ~IsSupported(request.ToCurrency)
    THEN Rejected(ErrInvalidCurrency, c, m)
    ELSE convertResolve(c, m, t, request, resp, setErr)

\* mutant: only a negative amount is refused, zero is converted
SvcConvertCurrency_ZeroAllowed(c, m, t, request, resp, setErr) ==
    IF ~IsSupported(request.FromCurrency) \/ ~IsSupported(request.ToCurrency)
    THEN Rejected(ErrInvalidCurrency, c, m)
    ELSE IF request.Amount < 0
    THEN Rejected(ErrInvalidAmount, c, m)
    ELSE convertResolve(c, m, t, request, resp, setErr)

SvcConvertCurrency(c, m, t, request, resp, setErr) ==
    IF ~IsSupported(request.FromCurrency) \/ ~IsSupported(request.ToCurrency)
    THEN Rejected(ErrInvalidCurrency, c, m)
    ELSE IF request.Amount <= 0
    THEN Rejected(ErrInvalidAmount, c, m)
    ELSE convertResolve(c, m, t, request, resp, setErr)

SvcRefreshRates(c, m, t, resp) ==
    LET refreshed(r) ==
            LET c1 == <<Call("repo.RefreshRates", <<>>)>> \o r.calls
            IN  IF r.err # Nil
                THEN [err |-> WrapExternalAPIFailure(r.err), cache |-> c, memo |-> r.memo,
                      calls |-> c1]
                ELSE [err |-> Nil, cache |-> CacheClearExpired(c, t).cache, memo |-> r.memo,
                      calls |-> c1 \o <<Call("cache.ClearExpired", <<>>)>>]
    IN  refreshed(RepoRefreshRates(m, t, resp))

---------------------------------------------------------------------------
(* inputs of the model *)

\* every quote table over the quote keys of the currencies cs with values in vals
Tables(cs, vals) == UNION {[{rateKey(c) : c \in S} -> vals] : S \in SUBSET cs}

Responses(tables, failures) ==
    {[outcome |-> "ok", quotes |-> q] : q \in tables}
        \cup {[outcome |-> o, quotes |-> EmptyMap] : o \in failures}

\* requests of the service: currency codes as they arrive, "XYZ" is no supported code
SvcPairs == {<<USD, INR>>, <<"XYZ", INR>>, <<USD, "XYZ">>}
SvcResponses == Responses(Tables({INR}, {2}), {"status"})
Amounts == {-1, 0, 3}

\* requested dates around the edge of the window and today, some with a time of day
DateInputs(t) ==
    {AddDays(Truncate(t), -(MaxAgeDays + 1)),
     AddDays(Truncate(t), -MaxAgeDays) - 1,
     AddDays(Truncate(t), -MaxAgeDays),
     Truncate(t)}

\* the endpoints of requested ranges, day by day
RangeDates(t) ==
    {AddDays(Truncate(t), -(MaxAgeDays + 2)),
     AddDays(Truncate(t), -(MaxAgeDays + 1)),
     AddDays(Truncate(t), -MaxAgeDays),
     AddDays(Truncate(t), -(MaxAgeDays - 1))}

\* the dates of conversion requests; the zero time stands for no date
ConvertDates(t) ==
    {ZeroTime,
     AddDays(Truncate(t), -(MaxAgeDays + 1)),
     AddDays(Truncate(t), -MaxAgeDays)}

\* what the provider answers for one day of a range
RangeResponses == Responses(Tables({INR}, {2}) \ {EmptyMap}, {"status"})

Days(startDate, endDate) == FormatDate(startDate)..FormatDate(endDate)

---------------------------------------------------------------------------
(* the service under concurrent-free requests: every handler is one step *)

\* last is the most recent step: the operation, its inputs, what it returned and the calls it
\* made.  The clock does not move inside a step, so now is the time of the operation in last.
Done(op, in, out, err, calls) ==
    [op |-> op, in |-> in, out |-> out, err |-> err, calls |-> calls]

Init ==
    /\ now = 0
    /\ cacheMap = EmptyMap
    /\ latestRates = EmptyMap
    /\ last = Done("init", <<>>, Nil, Nil, <<>>)
    /\ lastSet = Nil
    /\ mutex = Unlocked
    /\ refresher = "startup"
    /\ tickerC = NoTicker
    /\ ctxDone = FALSE
    /\ pc = [th \in Threads |-> Idle]

Tick ==
    /\ now < MaxNow
    /\ now' = now + 1
    /\ last' = Done("Tick", <<>>, Nil, Nil, <<>>)
    /\ UNCHANGED <<refresher, tickerC, ctxDone, mutex, pc, cacheMap, latestRates, lastSet>>

GetLatestRate ==
    \E p \in SvcPairs, resp \in SvcResponses :
        \E r \in {SvcGetLatestRate(cacheMap, latestRates, now, p[1], p[2], resp, Nil)} :
        /\ cacheMap' = r.cache
        /\ latestRates' = r.memo
        /\ last' = Done("GetLatestRate", [from |-> p[1], to |-> p[2]], r.rate, r.err, r.calls)
        /\ UNCHANGED <<refresher, tickerC, ctxDone, mutex, pc, now, lastSet>>

GetHistoricalRate ==
    \E p \in SvcPairs, date \in DateInputs(now), resp \in SvcResponses :
        \E r \in {SvcGetHistoricalRate(cacheMap, latestRates, now, p[1], p[2], date, resp,
                                      Nil)} :
        /\ cacheMap' = r.cache
        /\ latestRates' = r.memo
        /\ last' = Done("GetHistoricalRate", [from |-> p[1], to |-> p[2], date |-> date],
                        r.rate, r.err, r.calls)
        /\ UNCHANGED <<refresher, tickerC, ctxDone, mutex, pc, now, lastSet>>

GetHistoricalRates ==
    \E p \in SvcPairs, startDate \in RangeDates(now), endDate \in RangeDates(now) :
        /\ Cardinality(Days(startDate, endDate)) <= MaxRangeDays
        /\ \E respOf \in [Days(startDate, endDate) -> RangeResponses] :
            \E request \in {[BaseCurrency |-> p[1], TargetCurrency |-> p[2],
                              StartDate |-> startDate, EndDate |-> endDate]} :
            \E r \in {SvcGetHistoricalRates(cacheMap, latestRates, now, request, respOf)} :
                /\ cacheMap' = r.cache
                /\ latestRates' = r.memo
                /\ last' = Done("GetHistoricalRates", request, r.result, r.err, r.calls)
                /\ UNCHANGED <<refresher, tickerC, ctxDone, mutex, pc, now, lastSet>>

ConvertCurrency ==
    \E p \in SvcPairs, amount \in Amounts, date \in ConvertDates(now),
       resp \in SvcResponses :
        \E request \in {[FromCurrency |-> p[1], ToCurrency |-> p[2],
                          Amount |-> amount, Date |-> date]} :
        \E r \in {SvcConvertCurrency(cacheMap, latestRates, now, request, resp, Nil)} :
            /\ cacheMap' = r.cache
            /\ latestRates' = r.memo
            /\ last' = Done("ConvertCurrency", request, r.result, r.err, r.calls)
            /\ UNCHANGED <<refresher, tickerC, ctxDone, mutex, pc, now, lastSet>>

RefreshRates ==
    \E resp \in SvcResponses :
        \E r \in {SvcRefreshRates(cacheMap, latestRates, now, resp)} :
        /\ cacheMap' = r.cache
        /\ latestRates' = r.memo
        /\ last' = Done("RefreshRates", <<>>, Nil, r.err, r.calls)
        /\ UNCHANGED <<refresher, tickerC, ctxDone, mutex, pc, now, lastSet>>

Next ==
    \/ Tick
    \/ GetLatestRate
    \/ GetHistoricalRate
    \/ GetHistoricalRates
    \/ ConvertCurrency
    \/ RefreshRates

Spec == Init /\ [][Next]_vars

---------------------------------------------------------------------------
(* the service behind its ports: the RateCache it is given may fail to write, as the mock
   caches of the service tests can *)

PortSetErrors == {Nil, ErrCacheWrite}

PortGetLatestRate ==
    \E p \in SvcPairs, resp \in SvcResponses, setErr \in PortSetErrors :
        \E r \in {SvcGetLatestRate(cacheMap, latestRates, now, p[1], p[2], resp, setErr)} :
        /\ cacheMap' = r.cache
        /\ latestRates' = r.memo
        /\ last' = Done("GetLatestRate", [from |-> p[1], to |-> p[2]], r.rate, r.err, r.calls)
        /\ UNCHANGED <<refresher, tickerC, ctxDone, mutex, pc, now, lastSet>>

PortGetHistoricalRate ==
    \E p \in SvcPairs, date \in DateInputs(now), resp \in SvcResponses,
       setErr \in PortSetErrors :
        \E r \in {SvcGetHistoricalRate(cacheMap, latestRates, now, p[1], p[2], date, resp,
                                      setErr)} :
        /\ cacheMap' = r.cache
        /\ latestRates' = r.memo
        /\ last' = Done("GetHistoricalRate", [from |-> p[1], to |-> p[2], date |-> date],
                        r.rate, r.err, r.calls)
        /\ UNCHANGED <<refresher, tickerC, ctxDone, mutex, pc, now, lastSet>>

NextPort == Tick \/ PortGetLatestRate \/ PortGetHistoricalRate

SpecPort == Init /\ [][NextPort]_vars

---------------------------------------------------------------------------
(* the two extractors applied once to a quote table, from a memo the provider can hold *)

QuoteValues == {0, 1, 2}
ExtractTables == Tables({INR, EUR, JPY}, QuoteValues)
ExtractPairs ==
    {Pair(SupportedCurrencies[i], SupportedCurrencies[j]) :
        i \in 1..Len(SupportedCurrencies), j \in 1..Len(SupportedCurrencies)}

\* the memo is empty, or as a refresh at time 0 left it
PriorQuotes == [k \in {rateKey(INR), rateKey(EUR), rateKey(JPY), rateKey(GBP)} |-> 1]
ExtractMemos ==
    {EmptyMap, RepoRefreshRates(EmptyMap, 0, [outcome |-> "ok", quotes |-> PriorQuotes]).memo}

HistoricalDates(t) == {AddDays(Truncate(t), -MaxAgeDays), Truncate(t)}

InitExtract ==
    /\ now \in 0..MaxNow
    /\ cacheMap = EmptyMap
    /\ latestRates \in ExtractMemos
    /\ last = Done("init", <<>>, Nil, Nil, <<>>)
    /\ lastSet = Nil
    /\ mutex = Unlocked
    /\ refresher = "startup"
    /\ tickerC = NoTicker
    /\ ctxDone = FALSE
    /\ pc = [th \in Threads |-> Idle]

ExtractRate ==
    /\ last.op = "init"
    /\ \E quotes \in ExtractTables, pair \in ExtractPairs :
        LET x == extractRate(quotes, pair, now, latestRates) IN
        /\ latestRates' = x.memo
        /\ last' = Done("extractRate", [quotes |-> quotes, pair |-> pair], x.rate, x.err, <<>>)
        /\ UNCHANGED <<refresher, tickerC, ctxDone, mutex, pc, now, cacheMap, lastSet>>

ExtractHistoricalRate ==
    /\ last.op = "init"
    /\ \E quotes \in ExtractTables, pair \in ExtractPairs, date \in HistoricalDates(now) :
        LET x == extractHistoricalRate(quotes, pair, date, now) IN
        /\ last' = Done("extractHistoricalRate",
                        [quotes |-> quotes, pair |-> pair, date |-> date], x.rate, x.err, <<>>)
        /\ UNCHANGED <<refresher, tickerC, ctxDone, mutex, pc, now, cacheMap, latestRates, lastSet>>

NextExtract == ExtractRate \/ ExtractHistoricalRate

SpecExtract == InitExtract /\ [][NextExtract]_vars

---------------------------------------------------------------------------
(* the Rate Cache on its own: Get, Set and ClearExpired called directly *)

\* the keys the calls of the model write, as pair and date
CacheSlots ==
    {<<Pair(USD, INR), 0>>, <<Pair(USD, INR), AddDays(0, 1)>>, <<Pair(INR, USD), 0>>}

\* rates as the provider hands them over: computed now or earlier
CacheRates(t) ==
    {ExchangeRate(slot[1], F(v), slot[2], u) : slot \in CacheSlots, v \in {1, 2}, u \in 0..t}

\* the dates of lookups: the midnights of the slots and an instant inside the first day
LookupDates == {0, TicksPerDay - 1, AddDays(0, 1)}

InitCache ==
    /\ now = 0
    /\ cacheMap = EmptyMap
    /\ latestRates = EmptyMap
    /\ last = Done("init", <<>>, Nil, Nil, <<>>)
    /\ lastSet = Nil
    /\ mutex = Unlocked
    /\ refresher = "startup"
    /\ tickerC = NoTicker
    /\ ctxDone = FALSE
    /\ pc = [th \in Threads |-> Idle]

\* lastSet is the rate of the most recent Set, until a sweep runs
Set ==
    \E rate \in CacheRates(now) :
        LET r == CacheSet(cacheMap, rate) IN
        /\ cacheMap' = r.cache
        /\ last' = Done("Set", rate, Nil, r.err, <<>>)
        /\ lastSet' = <<rate>>
        /\ UNCHANGED <<refresher, tickerC, ctxDone, mutex, pc, now, latestRates>>

Get ==
    \E pair \in {Pair(USD, INR), Pair(INR, USD)}, date \in LookupDates :
        /\ last' = Done("Get", [pair |-> pair, date |-> date],
                        CacheGet(cacheMap, now, pair, date), Nil, <<>>)
        /\ cacheMap' = CacheAfterGet(cacheMap, now, pair, date)
        /\ UNCHANGED <<refresher, tickerC, ctxDone, mutex, pc, now, latestRates, lastSet>>

ClearExpired ==
    LET r == CacheClearExpired(cacheMap, now) IN
    /\ cacheMap' = r.cache
    /\ last' = Done("ClearExpired", <<>>, r.count, r.err, <<>>)
    /\ lastSet' = Nil
    /\ UNCHANGED <<refresher, tickerC, ctxDone, mutex, pc, now, latestRates>>

NextCache == Tick \/ Set \/ Get \/ ClearExpired

SpecCache == InitCache /\ [][NextCache]_vars

---------------------------------------------------------------------------
(* the Rate Cache under concurrent callers: every call takes c.mutex, runs its body and
   releases the mutex on return (defer) *)

\* mutant: Set takes the read lock, as Get does
LockMode_SetShared(op) == IF op \in {"Get", "Set"} THEN "RLock" ELSE "Lock"

\* the lock a method takes on entry: Get c.mutex.RLock(), Set and ClearExpired c.mutex.Lock()
LockMode(op) == IF op = "Get" THEN "RLock" ELSE "Lock"

\* sync.RWMutex: Lock waits until nobody holds the mutex, RLock until no writer holds it.
\* (Go also holds new readers back while a writer waits; that only removes interleavings.)
CanLock(mu, mode) ==
    IF mode = "Lock" THEN ~mu.writer /\ mu.readers = 0 ELSE ~mu.writer

DoLock(mu, mode) ==
    IF mode = "Lock" THEN [mu EXCEPT !.writer = TRUE] ELSE [mu EXCEPT !.readers = @ + 1]

DoUnlock(mu, mode) ==
    IF mode = "Lock" THEN [mu EXCEPT !.writer = FALSE] ELSE [mu EXCEPT !.readers = @ - 1]

\* the calls the goroutines make
LockRates == {ExchangeRate(Pair(USD, INR), F(v), 0, 0) : v \in {1, 2}}
CacheCalls ==
    {[op |-> "Get", arg |-> [pair |-> Pair(USD, INR), date |-> 0]]}
        \cup {[op |-> "Set", arg |-> rate] : rate \in LockRates}
        \cup {[op |-> "ClearExpired", arg |-> <<>>]}

\* the clock stands still while the calls interleave: early, or late enough for expiry
InitLock ==
    /\ now \in {0, MaxNow}
    /\ cacheMap = EmptyMap
    /\ latestRates = EmptyMap
    /\ last = Done("init", <<>>, Nil, Nil, <<>>)
    /\ lastSet = Nil
    /\ mutex = Unlocked
    /\ refresher = "startup"
    /\ tickerC = NoTicker
    /\ ctxDone = FALSE
    /\ pc = [th \in Threads |-> Idle]

\* a goroutine enters a method of the cache and reaches its first statement, the lock
CallCache ==
    \E th \in Threads, call \in CacheCalls :
        /\ pc[th].at = "idle"
        /\ pc' = [pc EXCEPT ![th] = [op |-> call.op, at |-> "lock", arg |-> call.arg,
                                      ret |-> <<>>]]
        /\ UNCHANGED <<refresher, tickerC, ctxDone, now, cacheMap, latestRates, last, lastSet, mutex>>

\* c.mutex.RLock() or c.mutex.Lock() returns
AcquireLock ==
    \E th \in Threads :
        /\ pc[th].at = "lock"
        /\ CanLock(mutex, LockMode(pc[th].op))
        /\ mutex' = DoLock(mutex, LockMode(pc[th].op))
        /\ pc' = [pc EXCEPT ![th].at = "body"]
        /\ UNCHANGED <<refresher, tickerC, ctxDone, now, cacheMap, latestRates, last, lastSet>>

\* the statements between the lock and the return
RunBody ==
    \E th \in Threads :
        /\ pc[th].at = "body"
        /\ \/ /\ pc[th].op = "Get"
              /\ pc' = [pc EXCEPT ![th].at = "unlock",
                                  ![th].ret = CacheGet(cacheMap, now, pc[th].arg.pair,
                                                       pc[th].arg.date)]
              /\ cacheMap' = CacheAfterGet(cacheMap, now, pc[th].arg.pair, pc[th].arg.date)
           \/ /\ pc[th].op = "Set"
              /\ cacheMap' = CacheSet(cacheMap, pc[th].arg).cache
              /\ pc' = [pc EXCEPT ![th].at = "unlock",
                                  ![th].ret = CacheSet(cacheMap, pc[th].arg).err]
           \/ /\ pc[th].op = "ClearExpired"
              /\ cacheMap' = CacheClearExpired(cacheMap, now).cache
              /\ pc' = [pc EXCEPT ![th].at = "unlock",
                                  ![th].ret = CacheClearExpired(cacheMap, now).err]
        /\ UNCHANGED <<refresher, tickerC, ctxDone, now, latestRates, last, lastSet, mutex>>

\* the deferred c.mutex.RUnlock() or c.mutex.Unlock() runs and the method returns
ReleaseLock ==
    \E th \in Threads :
        /\ pc[th].at = "unlock"
        /\ mutex' = DoUnlock(mutex, LockMode(pc[th].op))
        /\ pc' = [pc EXCEPT ![th] = Idle]
        /\ UNCHANGED <<refresher, tickerC, ctxDone, now, cacheMap, latestRates, last, lastSet>>

NextLock == CallCache \/ AcquireLock \/ RunBody \/ ReleaseLock

SpecLock == InitLock /\ [][NextLock]_vars

---------------------------------------------------------------------------
(* the Rate Provider called directly: FetchLatestRate, FetchHistoricalRates and RefreshRates
   of ExchangeAPI, next to a cache that is swept *)

ProviderPairs == {Pair(USD, INR), Pair(INR, USD), Pair(INR, EUR)}
ProviderResponses == Responses(Tables({INR, EUR}, {2}), {"status"})

\* what a refresh may fetch: the full table, a table of one quote, or a failure
RefreshResponses ==
    Responses({[k \in {rateKey(INR), rateKey(EUR), rateKey(JPY), rateKey(GBP)} |-> 1],
               [k \in {rateKey(INR)} |-> 1]}, {"status"})

\* the endpoints of the ranges asked of the provider, at midnight
ProviderRangeDates == {AddDays(0, d) : d \in 0..MaxRangeDays}
ProviderDayResponses == Responses(Tables({INR}, {2}), {"status"})

\* the cache holds what a historical request for today left at time 0; the memo is empty
InitProvider ==
    /\ now = 0
    /\ cacheMap = CacheSet(EmptyMap, ExchangeRate(Pair(USD, INR), F(2), 0, 0)).cache
    /\ latestRates = EmptyMap
    /\ last = Done("init", <<>>, Nil, Nil, <<>>)
    /\ lastSet = Nil
    /\ mutex = Unlocked
    /\ refresher = "startup"
    /\ tickerC = NoTicker
    /\ ctxDone = FALSE
    /\ pc = [th \in Threads |-> Idle]

FetchLatestRate ==
    \E pair \in ProviderPairs, resp \in ProviderResponses :
        \E r \in {RepoFetchLatestRate(latestRates, now, pair, resp)} :
        /\ latestRates' = r.memo
        /\ last' = Done("FetchLatestRate", [pair |-> pair], r.rate, r.err, r.calls)
        /\ UNCHANGED <<refresher, tickerC, ctxDone, mutex, pc, now, cacheMap, lastSet>>

FetchHistoricalRates ==
    \E startDate \in ProviderRangeDates, endDate \in ProviderRangeDates :
        /\ Cardinality(Days(startDate, endDate)) <= MaxRangeDays
        /\ \E respOf \in [Days(startDate, endDate) -> ProviderDayResponses] :
            \E request \in {[BaseCurrency |-> USD, TargetCurrency |-> INR,
                              StartDate |-> startDate, EndDate |-> endDate]} :
            \E r \in {RepoFetchHistoricalRates(now, request, respOf)} :
                /\ last' = Done("FetchHistoricalRates", [request |-> request, respOf |-> respOf],
                                r.result, r.err, r.calls)
                /\ UNCHANGED <<refresher, tickerC, ctxDone, mutex, pc, now, cacheMap, latestRates, lastSet>>

ProviderRefreshRates ==
    \E resp \in RefreshResponses :
        \E r \in {RepoRefreshRates(latestRates, now, resp)} :
        /\ latestRates' = r.memo
        /\ last' = Done("ProviderRefreshRates", [resp |-> resp], Nil, r.err, r.calls)
        /\ UNCHANGED <<refresher, tickerC, ctxDone, mutex, pc, now, cacheMap, lastSet>>

NextProvider ==
    \/ Tick
    \/ FetchLatestRate
    \/ FetchHistoricalRates
    \/ ProviderRefreshRates
    \/ ClearExpired

SpecProvider == InitProvider /\ [][NextProvider]_vars

---------------------------------------------------------------------------
(* RefreshRates of the provider applied once to a fetched table, from a memo the provider
   can hold *)

AllRefreshResponses == Responses(Tables({INR, EUR, JPY, GBP}, {1, 2}), HTTPFailures)

RefreshOnce ==
    /\ last.op = "init"
    /\ \E resp \in AllRefreshResponses :
        \E r \in {RepoRefreshRates(latestRates, now, resp)} :
        /\ latestRates' = r.memo
        /\ last' = Done("ProviderRefreshRates", [resp |-> resp, memo |-> latestRates], Nil,
                        r.err, r.calls)
        /\ UNCHANGED <<refresher, tickerC, ctxDone, mutex, pc, now, cacheMap, lastSet>>

NextRefresh == RefreshOnce

SpecRefresh == InitExtract /\ [][NextRefresh]_vars

---------------------------------------------------------------------------
(* the background refresher: the goroutine main starts on refreshRates, its ticker, and the
   cancellation main raises at shutdown; requests for latest rates go on beside it.  The
   interval of the ticker is one tick of the clock. *)

\* a run whose context is cancelled cannot send its request; otherwise the provider answers
\* with the full table, a table of one quote, or a failure
RunResponses(done) ==
    IF done THEN Responses({}, {"transport"}) ELSE RefreshResponses

RefresherPairs == {Pair(USD, INR), Pair(INR, USD), Pair(INR, EUR)}

\* service.RefreshRates(ctx) as the refresher calls it; its error is only logged
RefresherRun(trigger) ==
    \E resp \in RunResponses(ctxDone) :
        \E r \in {SvcRefreshRates(cacheMap, latestRates, now, resp)} :
            /\ cacheMap' = r.cache
            /\ latestRates' = r.memo
            /\ last' = Done("refreshRates", [trigger |-> trigger, resp |-> resp], Nil, r.err,
                            r.calls)

\* the run at startup, then time.NewTicker(interval)
StartupRun ==
    /\ refresher = "startup"
    /\ RefresherRun("startup")
    /\ refresher' = "select"
    /\ tickerC' = 0
    /\ UNCHANGED <<now, lastSet, mutex, pc, ctxDone>>

\* the interval elapses: the ticker sends on its channel of capacity one, and a tick that
\* finds the channel full is dropped
TickerFires ==
    /\ tickerC # NoTicker
    /\ refresher # "exited"
    /\ now < MaxNow
    /\ now' = now + 1
    /\ tickerC' = 1
    /\ last' = Done("ticker.C", <<>>, Nil, Nil, <<>>)
    /\ UNCHANGED <<cacheMap, latestRates, lastSet, mutex, pc, refresher, ctxDone>>

\* mutant: a run that fails ends the refresher
SelectTick_StopOnFailure ==
    /\ refresher = "select"
    /\ tickerC = 1
    /\ RefresherRun("tick")
    /\ tickerC' = 0
    /\ refresher' = IF last'.err # Nil THEN "exited" ELSE "select"
    /\ UNCHANGED <<now, lastSet, mutex, pc, ctxDone>>

\* select takes case <-ticker.C: it is ready, whether or not ctx.Done() is ready too
SelectTick ==
    /\ refresher = "select"
    /\ tickerC = 1
    /\ RefresherRun("tick")
    /\ tickerC' = 0
    /\ UNCHANGED <<now, lastSet, mutex, pc, refresher, ctxDone>>

\* select takes case <-ctx.Done(): the goroutine returns and the deferred ticker.Stop() runs
SelectDone ==
    /\ refresher = "select"
    /\ ctxDone
    /\ refresher' = "exited"
    /\ last' = Done("refresher.return", <<>>, Nil, Nil, <<>>)
    /\ UNCHANGED <<now, cacheMap, latestRates, lastSet, mutex, pc, tickerC, ctxDone>>

\* main receives the signal and calls cancelRefresh()
CancelRefresh ==
    /\ ~ctxDone
    /\ ctxDone' = TRUE
    /\ last' = Done("cancelRefresh", <<>>, Nil, Nil, <<>>)
    /\ UNCHANGED <<now, cacheMap, latestRates, lastSet, mutex, pc, refresher, tickerC>>

\* a request for a latest rate served while the refresher is between two runs
ServeLatestRate ==
    \E pair \in RefresherPairs, resp \in SvcResponses :
        \E r \in {SvcGetLatestRate(cacheMap, latestRates, now, pair.BaseCurrency,
                                  pair.TargetCurrency, resp, Nil)} :
        /\ cacheMap' = r.cache
        /\ latestRates' = r.memo
        /\ last' = Done("GetLatestRate",
                        [from |-> pair.BaseCurrency, to |-> pair.TargetCurrency],
                        r.rate, r.err, r.calls)
        /\ UNCHANGED <<refresher, tickerC, ctxDone, mutex, pc, now, lastSet>>

NextRefresher ==
    \/ StartupRun
    \/ TickerFires
    \/ SelectTick
    \/ SelectDone
    \/ CancelRefresh
    \/ ServeLatestRate

SpecRefresher == Init /\ [][NextRefresher]_vars

\* the Go scheduler runs a runnable goroutine, and select, which picks uniformly among the
\* ready cases, does not pass over a case that stays ready for ever
SpecRefresherLive ==
    /\ Init
    /\ [][NextRefresher]_vars
    /\ WF_vars(StartupRun)
    /\ WF_vars(SelectTick)
    /\ WF_vars(SelectDone)

---------------------------------------------------------------------------
(* the service asked for pairs of supported currencies, base and target equal or not *)

SamePairs == {<<USD, USD>>, <<USD, INR>>}

\* today as the requested date: at midnight, and with the time of day of the request
SameDates(t) == {Truncate(t), t}

SameGetLatestRate ==
    \E p \in SamePairs, resp \in SvcResponses :
        \E r \in {SvcGetLatestRate(cacheMap, latestRates, now, p[1], p[2], resp, Nil)} :
        /\ cacheMap' = r.cache
        /\ latestRates' = r.memo
        /\ last' = Done("GetLatestRate", [from |-> p[1], to |-> p[2]], r.rate, r.err, r.calls)
        /\ UNCHANGED <<refresher, tickerC, ctxDone, mutex, pc, now, lastSet>>

SameGetHistoricalRate ==
    \E p \in SamePairs, date \in SameDates(now), resp \in SvcResponses :
        \E r \in {SvcGetHistoricalRate(cacheMap, latestRates, now, p[1], p[2], date, resp,
                                      Nil)} :
        /\ cacheMap' = r.cache
        /\ latestRates' = r.memo
        /\ last' = Done("GetHistoricalRate", [from |-> p[1], to |-> p[2], date |-> date],
                        r.rate, r.err, r.calls)
        /\ UNCHANGED <<refresher, tickerC, ctxDone, mutex, pc, now, lastSet>>

SameGetHistoricalRates ==
    \E p \in SamePairs, date \in SameDates(now) :
        \E respOf \in [Days(date, date) -> RangeResponses] :
            \E request \in {[BaseCurrency |-> p[1], TargetCurrency |-> p[2],
                              StartDate |-> date, EndDate |-> date]} :
            \E r \in {SvcGetHistoricalRates(cacheMap, latestRates, now, request, respOf)} :
                /\ cacheMap' = r.cache
                /\ latestRates' = r.memo
                /\ last' = Done("GetHistoricalRates", request, r.result, r.err, r.calls)
                /\ UNCHANGED <<refresher, tickerC, ctxDone, mutex, pc, now, lastSet>>

SameConvertCurrency ==
    \E p \in SamePairs, date \in {ZeroTime} \cup SameDates(now), resp \in SvcResponses :
        \E request \in {[FromCurrency |-> p[1], ToCurrency |-> p[2],
                          Amount |-> 3, Date |-> date]} :
        \E r \in {SvcConvertCurrency(cacheMap, latestRates, now, request, resp, Nil)} :
            /\ cacheMap' = r.cache
            /\ latestRates' = r.memo
            /\ last' = Done("ConvertCurrency", request, r.result, r.err, r.calls)
            /\ UNCHANGED <<refresher, tickerC, ctxDone, mutex, pc, now, lastSet>>

NextSamePair ==
    \/ Tick
    \/ SameGetLatestRate
    \/ SameGetHistoricalRate
    \/ SameGetHistoricalRates
    \/ SameConvertCurrency

SpecSamePair == Init /\ [][NextSamePair]_vars

---------------------------------------------------------------------------
(* Properties of the service, checked under Spec *)

ServiceReads == {"GetLatestRate", "GetHistoricalRate", "GetHistoricalRates", "ConvertCurrency"}

\* the currency codes of the request of a step
ReqFrom(l) ==
    CASE l.op \in {"GetLatestRate", "GetHistoricalRate"} -> l.in.from
      [] l.op = "GetHistoricalRates" -> l.in.BaseCurrency
      [] l.op = "ConvertCurrency" -> l.in.FromCurrency

ReqTo(l) ==
    CASE l.op \in {"GetLatestRate", "GetHistoricalRate"} -> l.in.to
      [] l.op = "GetHistoricalRates" -> l.in.TargetCurrency
      [] l.op = "ConvertCurrency" -> l.in.ToCurrency

CurrencyCodes == {"USD", "INR", "EUR", "JPY", "GBP"}

BadCurrency(l) == ReqFrom(l) \notin CurrencyCodes \/ ReqTo(l) \notin CurrencyCodes

\* the calendar day of d is more than 90 days before the day of the clock
TooOld(d) == FormatDate(d) < FormatDate(now) - MaxAgeDays

\* C1: each of getLatestRate, getHistoricalRate, getHistoricalRates and convertCurrency, given
\* a currency code outside {USD, INR, EUR, JPY, GBP} on either side, fails with
\* InvalidCurrency, returns no result and makes no cache and no provider call.
C1_InvalidCurrencyFirst ==
    (last.op \in ServiceReads /\ BadCurrency(last)) =>
        /\ ErrorIs(last.err, "ErrInvalidCurrency")
        /\ last.out = Nil
        /\ last.calls = <<>>

\* C1 witness: a latest-rate request with an unsupported target was refused while the cache
\* held an entry
C1_Witness ==
    /\ last.op = "GetLatestRate"
    /\ last.in.from = USD /\ last.in.to = "XYZ"
    /\ ErrorIs(last.err, "ErrInvalidCurrency")
    /\ cacheMap # EmptyMap

\* C2: convertCurrency checks the currencies, then the amount, then (only for a dated
\* request) the 90-day window, and the first failing check decides the error.
C2_ConvertValidationOrder ==
    last.op = "ConvertCurrency" =>
        LET badAmount == last.in.Amount <= 0
            tooOld    == last.in.Date # ZeroTime /\ TooOld(last.in.Date)
        IN  /\ BadCurrency(last) => ErrorIs(last.err, "ErrInvalidCurrency")
            /\ (~BadCurrency(last) /\ badAmount) => ErrorIs(last.err, "ErrInvalidAmount")
            /\ (~BadCurrency(last) /\ ~badAmount /\ tooOld) => ErrorIs(last.err, "ErrDateOutOfRange")
            /\ ErrorIs(last.err, "ErrDateOutOfRange") =>
                   (~BadCurrency(last) /\ ~badAmount /\ tooOld)

\* C2 witness: a request failing all three checks got InvalidCurrency
C2_Witness ==
    /\ last.op = "ConvertCurrency"
    /\ BadCurrency(last)
    /\ last.in.Amount <= 0
    /\ last.in.Date # ZeroTime /\ TooOld(last.in.Date)
    /\ ErrorIs(last.err, "ErrInvalidCurrency")

\* C3: convertCurrency on a supported pair with amount <= 0 fails with InvalidAmount whatever
\* the cache, the memo and the provider hold; it makes no call and changes no state.
C3_InvalidAmount ==
    [][(/\ last'.op = "ConvertCurrency"
        /\ ~BadCurrency(last')
        /\ last'.in.Amount <= 0)
       => (/\ ErrorIs(last'.err, "ErrInvalidAmount")
           /\ last'.out = Nil
           /\ last'.calls = <<>>
           /\ cacheMap' = cacheMap
           /\ latestRates' = latestRates)]_vars

\* C3 witness: amount 0 was refused while both the cache and the memo held rates
C3_Witness ==
    /\ last.op = "ConvertCurrency"
    /\ ~BadCurrency(last)
    /\ last.in.Amount = 0
    /\ ErrorIs(last.err, "ErrInvalidAmount")
    /\ cacheMap # EmptyMap
    /\ latestRates # EmptyMap

\* C4: getHistoricalRates on supported currencies: an endpoint older than 90 days gives
\* DateOutOfRange even when start is after end; InvalidDateRange is returned exactly when
\* both endpoints are inside the window and start is after end; a failing request does not
\* reach the provider.
C4_RangeValidationOrder ==
    (last.op = "GetHistoricalRates" /\ ~BadCurrency(last)) =>
        LET startOld == TooOld(last.in.StartDate)
            endOld   == TooOld(last.in.EndDate)
            inverted == last.in.StartDate > last.in.EndDate
        IN  /\ (startOld \/ endOld) => ErrorIs(last.err, "ErrDateOutOfRange")
            /\ ErrorIs(last.err, "ErrInvalidDateRange") <=> (~startOld /\ ~endOld /\ inverted)
            /\ last.err # Nil => (last.calls = <<>> /\ last.out = Nil)
            /\ (~startOld /\ ~endOld /\ ~inverted) => last.err = Nil

\* C4 witness: a range whose start is too old and after its end got DateOutOfRange
C4_Witness ==
    /\ last.op = "GetHistoricalRates"
    /\ ~BadCurrency(last)
    /\ TooOld(last.in.StartDate)
    /\ last.in.StartDate > last.in.EndDate
    /\ ErrorIs(last.err, "ErrDateOutOfRange")
    /\ last.calls = <<>>

\* the dates a step validates against the window: the date of getHistoricalRate, both
\* endpoints of getHistoricalRates, the date of a dated convertCurrency with a valid amount
WindowDates(l) ==
    CASE l.op = "GetHistoricalRate" -> {l.in.date}
      [] l.op = "GetHistoricalRates" -> {l.in.StartDate, l.in.EndDate}
      [] l.op = "ConvertCurrency" ->
             IF l.in.Amount > 0 /\ l.in.Date # ZeroTime THEN {l.in.Date} ELSE {}
      [] OTHER -> {}

\* C5: at day granularity and for every value of today, a date exactly 90 days before today
\* passes the window check and a date 91 days or more before today fails with
\* DateOutOfRange, in getHistoricalRate, for each endpoint of getHistoricalRates and in the
\* dated branch of convertCurrency (and utils.ValidateDate draws the same line).
C5_NinetyDayWindow ==
    /\ (last.op \in ServiceReads /\ ~BadCurrency(last)) =>
           /\ (\E d \in WindowDates(last) : FormatDate(d) <= FormatDate(now) - (MaxAgeDays + 1))
                  => ErrorIs(last.err, "ErrDateOutOfRange")
           /\ (/\ WindowDates(last) # {}
               /\ \A d \in WindowDates(last) : FormatDate(d) >= FormatDate(now) - MaxAgeDays)
                  => ~ErrorIs(last.err, "ErrDateOutOfRange")
    /\ \A d \in DateInputs(now) :
           ValidateDate(d, now) <=> (FormatDate(d) >= FormatDate(now) - MaxAgeDays)

\* C5 witness: in the middle of a day, the date exactly 90 days before today was accepted
\* and resolved
C5_Witness ==
    /\ last.op = "GetHistoricalRate"
    /\ now % TicksPerDay # 0
    /\ FormatDate(last.in.date) = FormatDate(now) - MaxAgeDays
    /\ last.err = Nil
    /\ last.out # Nil

---------------------------------------------------------------------------
(* Properties of the extractors, checked under SpecExtract *)

Extractions == {"extractRate", "extractHistoricalRate"}

HasQuote(quotes, c) == <<"USD", c>> \in DOMAIN quotes
Quote(quotes, c) == quotes[<<"USD", c>>]

\* the currencies whose quotes the pair needs: the target when the base is the anchor, the
\* base when the target is the anchor, both otherwise
Required(pair) ==
    IF pair.BaseCurrency = "USD" THEN {pair.TargetCurrency}
    ELSE IF pair.TargetCurrency = "USD" THEN {pair.BaseCurrency}
    ELSE {pair.BaseCurrency, pair.TargetCurrency}

\* the pair divides by the quote of its base: the target is the anchor, or a cross rate
DividesByBase(pair) == pair.BaseCurrency # "USD"

NotFoundError(err) == err # Nil /\ err[1].msg[1] = "rate not found for currency"

\* the float r is the quotient a / b of two numbers, b not zero
RateIs(r, a, b) == r.d # 0 /\ r.n * b = a * r.d

\* C6 (as claimed): when the quote used as divisor, "USD"+base, is present with value 0,
\* resolve fails with RateNotFound, returns no rate and writes nothing to the memo, in the
\* latest and in the historical extractor.
C6_ZeroDivisorFails ==
    [][(/\ last'.op \in Extractions
        /\ last.op = "init"
        /\ DividesByBase(last'.in.pair)
        /\ \A c \in Required(last'.in.pair) : HasQuote(last'.in.quotes, c)
        /\ Quote(last'.in.quotes, last'.in.pair.BaseCurrency) = 0)
       => (/\ NotFoundError(last'.err)
           /\ last'.out = Nil
           /\ latestRates' = latestRates)]_vars

\* C7: when a quote the pair requires is absent, resolve returns a not-found error and no
\* rate, and leaves the memo as it was; a cross rate succeeds only with both quotes present.
C7_MissingQuoteFails ==
    [][(last'.op \in Extractions /\ last.op = "init") =>
          /\ (\E c \in Required(last'.in.pair) : ~HasQuote(last'.in.quotes, c))
                 => (/\ NotFoundError(last'.err)
                     /\ last'.out = Nil
                     /\ latestRates' = latestRates)
          /\ (last'.err = Nil /\ last'.out # Nil)
                 => \A c \in Required(last'.in.pair) : HasQuote(last'.in.quotes, c)]_vars

\* C7 witness: the cross rate INR-EUR was asked from a table holding USDINR but not USDEUR,
\* it failed, and the memo still holds the rate of the earlier refresh
C7_Witness ==
    /\ last.op = "extractRate"
    /\ last.in.pair = [BaseCurrency |-> "INR", TargetCurrency |-> "EUR"]
    /\ HasQuote(last.in.quotes, "INR") /\ ~HasQuote(last.in.quotes, "EUR")
    /\ NotFoundError(last.err)
    /\ last.out = Nil
    /\ <<"INR", "EUR">> \in DOMAIN latestRates
    /\ latestRates[<<"INR", "EUR">>].LastUpdated < now

\* C8: for a supported pair with base # target and a table holding the required quotes with
\* non-zero values, resolve returns a record for that base and target with
\* rate = quote(target) when the base is USD, 1 / quote(base) when the target is USD, and
\* quote(target) / quote(base) otherwise.
C8_RateFormula ==
    (/\ last.op \in Extractions
     /\ last.in.pair.BaseCurrency # last.in.pair.TargetCurrency
     /\ \A c \in Required(last.in.pair) :
            HasQuote(last.in.quotes, c) /\ Quote(last.in.quotes, c) # 0)
    => LET pair == last.in.pair
           q(c) == Quote(last.in.quotes, c)
       IN  /\ last.err = Nil
           /\ last.out # Nil
           /\ last.out[1].BaseCurrency = pair.BaseCurrency
           /\ last.out[1].TargetCurrency = pair.TargetCurrency
           /\ IF pair.BaseCurrency = "USD"
              THEN RateIs(last.out[1].Rate, q(pair.TargetCurrency), 1)
              ELSE IF pair.TargetCurrency = "USD"
              THEN RateIs(last.out[1].Rate, 1, q(pair.BaseCurrency))
              ELSE RateIs(last.out[1].Rate, q(pair.TargetCurrency), q(pair.BaseCurrency))

\* C8 witness: the cross rate EUR-INR from USDINR = 1 and USDEUR = 2 is 1/2
C8_Witness ==
    /\ last.op = "extractRate"
    /\ last.in.pair = [BaseCurrency |-> "EUR", TargetCurrency |-> "INR"]
    /\ HasQuote(last.in.quotes, "INR") /\ Quote(last.in.quotes, "INR") = 1
    /\ HasQuote(last.in.quotes, "EUR") /\ Quote(last.in.quotes, "EUR") = 2
    /\ last.out # Nil
    /\ last.out[1].Rate = [n |-> 1, d |-> 2]

---------------------------------------------------------------------------
(* Properties of the Rate Cache, checked under SpecCache *)

\* the key of a lookup: the pair and the calendar day of the date
SlotOf(base, target, date) == <<base, target, date \div TicksPerDay>>

\* C9: get(pair, date) returns (rate, found = true) if and only if an entry is stored under
\* (pair, date) and now - entry.lastUpdated <= TTL at the time of the read; otherwise it
\* returns not-found; an entry whose age is exactly the TTL is still served.
C9_GetServesFreshOnly ==
    last.op = "Get" =>
        LET key    == SlotOf(last.in.pair.BaseCurrency, last.in.pair.TargetCurrency, last.in.date)
            stored == key \in DOMAIN cacheMap
            fresh  == stored /\ now - cacheMap[key].LastUpdated <= cacheTTL
        IN  /\ last.out.found <=> fresh
            /\ fresh => last.out.rate = <<cacheMap[key]>>
            /\ ~fresh => last.out.rate = Nil

\* C9 witness: an entry whose age is exactly the TTL was served
C9_Witness ==
    /\ last.op = "Get"
    /\ last.out.found
    /\ now - last.out.rate[1].LastUpdated = cacheTTL

\* C10: set(rate) followed by get(rate.base, rate.target, rate.date), with no set and no
\* sweep in between, returns (rate, true) while the read is within the TTL of the rate
\* (now - rate.lastUpdated <= TTL), and not-found once the clock is past it.
C10_SetGetRoundTrip ==
    (/\ last.op = "Get"
     /\ lastSet # Nil
     /\ last.in.pair = [BaseCurrency |-> lastSet[1].BaseCurrency,
                        TargetCurrency |-> lastSet[1].TargetCurrency]
     /\ last.in.date = lastSet[1].Date)
    => IF now - lastSet[1].LastUpdated <= cacheTTL
       THEN last.out = [rate |-> lastSet, found |-> TRUE]
       ELSE last.out = [rate |-> Nil, found |-> FALSE]

\* C10 witness: the rate that was set is read back as not-found after its TTL has passed,
\* while it is still stored
C10_Witness ==
    /\ last.op = "Get"
    /\ lastSet # Nil
    /\ last.in.pair = [BaseCurrency |-> lastSet[1].BaseCurrency,
                       TargetCurrency |-> lastSet[1].TargetCurrency]
    /\ last.in.date = lastSet[1].Date
    /\ ~last.out.found
    /\ now - lastSet[1].LastUpdated > cacheTTL
    /\ \E key \in DOMAIN cacheMap : cacheMap[key] = lastSet[1]

---------------------------------------------------------------------------
(* the sweep, the lock and the cache-aside path *)

\* C11: clearExpired is idempotent: in every state a sweep has just left (the clock has not
\* moved and nothing was set since, both would replace last), a second sweep at the same
\* instant removes no entry and leaves the cache exactly as it is.
C11_ClearExpiredIdempotent ==
    last.op = "ClearExpired" =>
        /\ CacheClearExpired(cacheMap, now).count = 0
        /\ CacheClearExpired(cacheMap, now).cache = cacheMap
        /\ CacheClearExpired(cacheMap, now).err = Nil

\* C11 witness: the first sweep removed two entries and left one, which the second keeps
C11_Witness ==
    /\ last.op = "ClearExpired"
    /\ last.out = 2
    /\ cacheMap # EmptyMap
    /\ CacheClearExpired(cacheMap, now).cache = cacheMap

\* the goroutines inside the critical section of a method: past the lock, before the unlock
InCritical(ops) == {th \in Threads : pc[th].op \in ops /\ pc[th].at \in {"body", "unlock"}}

\* C12: under every interleaving of Get, Set and ClearExpired calls on one cache, a Set or a
\* ClearExpired is never inside its critical section together with another Set, another
\* ClearExpired or a Get.  (That several Get calls may be inside together is the witness.)
C12_WritersExclusive ==
    /\ Cardinality(InCritical({"Set", "ClearExpired"})) <= 1
    /\ InCritical({"Set", "ClearExpired"}) # {} => InCritical({"Get"}) = {}

\* C12 witness: two Get calls are inside their critical sections together while a Set call
\* waits at the lock
C12_Witness ==
    /\ Cardinality(InCritical({"Get"})) >= 2
    /\ \E th \in Threads : pc[th].op = "Set" /\ pc[th].at = "lock"

\* the cache holds an entry for the pair and the day of d that is not older than the TTL
FreshEntry(c, t, pair, d) ==
    /\ <<pair.BaseCurrency, pair.TargetCurrency, d \div TicksPerDay>> \in DOMAIN c
    /\ t - c[<<pair.BaseCurrency, pair.TargetCurrency, d \div TicksPerDay>>].LastUpdated <= cacheTTL

\* the step called fn
Called(l, fn) == \E i \in DOMAIN l.calls : l.calls[i].fn = fn

\* C13: getLatestRate on a supported pair calls the provider's FetchLatestRate if and only if
\* the cache lookup for (pair, today) is a miss; on a hit it returns exactly the cached rate
\* and makes no provider call and no cache write.
C13_FetchOnlyOnMiss ==
    [][(last'.op = "GetLatestRate" /\ ~BadCurrency(last'))
       => LET pair == Pair(last'.in.from, last'.in.to)
              key  == <<last'.in.from, last'.in.to, now \div TicksPerDay>>
              hit  == FreshEntry(cacheMap, now, pair, now)
          IN  /\ last'.calls[1] = [fn |-> "cache.Get", arg |-> key]
              /\ Called(last', "repo.FetchLatestRate") <=> ~hit
              /\ hit => /\ last'.out = <<cacheMap[key]>>
                        /\ last'.err = Nil
                        /\ Len(last'.calls) = 1
                        /\ cacheMap' = cacheMap
                        /\ latestRates' = latestRates]_vars

\* C13 witness: a latest-rate request was answered from an entry whose age is the TTL, with
\* the cache lookup as its only call
C13_Witness ==
    /\ last.op = "GetLatestRate"
    /\ last.err = Nil
    /\ Len(last.calls) = 1
    /\ last.out # Nil
    /\ now - last.out[1].LastUpdated = cacheTTL

\* a call of the repository made by the step returned an error
ProviderFailed(l) ==
    \E i \in DOMAIN l.calls : l.calls[i].fn = "repo.returned" /\ l.calls[i].arg # Nil

\* C14: when getLatestRate or getHistoricalRate misses the cache and the provider call fails,
\* the operation returns an ExternalAPIFailure error and no rate, does not call Set, and
\* leaves the cache as it was.
C14_ProviderFailure ==
    [][(last'.op \in {"GetLatestRate", "GetHistoricalRate"} /\ ProviderFailed(last'))
       => (/\ ErrorIs(last'.err, "ErrExternalAPIFailure")
           /\ last'.out = Nil
           /\ ~Called(last', "cache.Set")
           /\ cacheMap' = cacheMap)]_vars

\* C14 witness: a historical request missed a non-empty cache, the provider's table lacked
\* the quote, and the request failed with ExternalAPIFailure
C14_Witness ==
    /\ last.op = "GetHistoricalRate"
    /\ Called(last, "http.historical")
    /\ ProviderFailed(last)
    /\ ErrorIs(last.err, "ErrExternalAPIFailure")
    /\ cacheMap # EmptyMap

\* the error the cache write of the step reported, as the service logged it
SetFailed(l) == Called(l, "log.Error")

\* C15: a failing cache write is never surfaced: when the provider returned a rate, so that
\* Set was called, getLatestRate and getHistoricalRate succeed and return the rate they
\* handed to Set, whether Set reported an error or not.
C15_SetFailureNotSurfaced ==
    (last.op \in {"GetLatestRate", "GetHistoricalRate"} /\ Called(last, "cache.Set")) =>
        /\ last.err = Nil
        /\ \A i \in DOMAIN last.calls :
               last.calls[i].fn = "cache.Set" => last.out = <<last.calls[i].arg>>
        /\ \A i \in DOMAIN last.calls :
               last.calls[i].fn = "repo.returned" => last.calls[i].arg = Nil

\* C15 witness: a historical request got its rate from the provider, the cache write failed
\* and stored nothing, and the request succeeded with that rate
C15_Witness ==
    /\ last.op = "GetHistoricalRate"
    /\ Called(last, "http.historical")
    /\ SetFailed(last)
    /\ last.err = Nil
    /\ last.out # Nil
    /\ cacheMap = EmptyMap

---------------------------------------------------------------------------
(* Properties of the provider, checked under SpecProvider and SpecRefresh *)

\* C16: FetchLatestRate consults the memo first: when the memo holds an entry for
\* (base, target) it returns that entry without a network fetch, however old the entry is;
\* and no step other than RefreshRates of the provider removes or changes a memo entry: not
\* the passage of time, not a fetch, not the sweep of the cache.
C16_MemoFirst ==
    [][/\ (last'.op = "FetchLatestRate"
            /\ <<last'.in.pair.BaseCurrency, last'.in.pair.TargetCurrency>>
                   \in DOMAIN latestRates)
           => (/\ last'.out = <<latestRates[<<last'.in.pair.BaseCurrency,
                                              last'.in.pair.TargetCurrency>>]>>
               /\ last'.err = Nil
               /\ last'.calls = <<>>
               /\ latestRates' = latestRates)
       /\ last'.op # "ProviderRefreshRates"
           => \A k \in DOMAIN latestRates :
                  k \in DOMAIN latestRates' /\ latestRates'[k] = latestRates[k]]_vars

\* C16 witness: a fetch was served from a memo entry older than the cache TTL, without a
\* network call, after the sweep had emptied the cache
C16_Witness ==
    /\ last.op = "FetchLatestRate"
    /\ last.err = Nil
    /\ last.calls = <<>>
    /\ now - last.out[1].LastUpdated > cacheTTL
    /\ cacheMap = EmptyMap

\* the 20 ordered pairs of distinct supported currencies, as memo keys
DistinctPairs == {p \in CurrencyCodes \X CurrencyCodes : p[1] # p[2]}

\* the pairs whose required quotes are all in the table
Resolvable(quotes) ==
    {p \in DistinctPairs :
        \A c \in Required([BaseCurrency |-> p[1], TargetCurrency |-> p[2]]) : HasQuote(quotes, c)}

\* C17: a RefreshRates of the provider whose table fetch succeeds returns success even when
\* extractions fail, and the memo afterwards holds exactly the pairs whose required quotes
\* are in the fetched table (all 20 when the four non-USD quotes are there), each computed
\* from that table at the time of the refresh.
C17_RefreshPopulates ==
    (last.op = "ProviderRefreshRates" /\ last.in.resp.outcome = "ok") =>
        /\ last.err = Nil
        /\ Cardinality(DistinctPairs) = 20
        /\ DOMAIN latestRates = Resolvable(last.in.resp.quotes)
        /\ (\A c \in CurrencyCodes \ {"USD"} : HasQuote(last.in.resp.quotes, c))
               => Cardinality(DOMAIN latestRates) = 20
        /\ \A p \in DOMAIN latestRates :
               /\ latestRates[p].BaseCurrency = p[1]
               /\ latestRates[p].TargetCurrency = p[2]
               /\ latestRates[p].LastUpdated = now
               /\ RateIs(latestRates[p].Rate,
                         IF p[2] = "USD" THEN 1 ELSE Quote(last.in.resp.quotes, p[2]),
                         IF p[1] = "USD" THEN 1 ELSE Quote(last.in.resp.quotes, p[1]))

\* C17 witness: a refresh after time 0 fetched a table with two of the four quotes: it
\* succeeded and left the 6 pairs of that table in the memo
C17_Witness ==
    /\ last.op = "ProviderRefreshRates"
    /\ last.in.resp.outcome = "ok"
    /\ last.err = Nil
    /\ now > 0
    /\ HasQuote(last.in.resp.quotes, "INR") /\ HasQuote(last.in.resp.quotes, "EUR")
    /\ ~HasQuote(last.in.resp.quotes, "JPY") /\ ~HasQuote(last.in.resp.quotes, "GBP")
    /\ Cardinality(DOMAIN latestRates) = 6

---------------------------------------------------------------------------
(* Properties of the service's refresh and conversion, checked under Spec *)

\* C18 (as claimed): every run of the service's refreshRates sweeps the cache: after a
\* refreshRates call has returned, the cache holds no entry that was older than the TTL when
\* the call started.
C18_RefreshAlwaysSweeps ==
    [][last'.op = "RefreshRates"
       => \A k \in DOMAIN cacheMap :
              now - cacheMap[k].LastUpdated > cacheTTL => k \notin DOMAIN cacheMap']_vars

\* the provider's answer for a day yields a rate of the pair
DaySucceeded(resp, pair) ==
    resp.outcome = "ok" /\ \A c \in Required(pair) : HasQuote(resp.quotes, c)

\* C19: FetchHistoricalRates over [start, end] with start <= end, both at midnight, makes
\* exactly one historical fetch per calendar day of the closed range, in order, never
\* returns an error, and returns a map with an entry for day d exactly when the fetch for d
\* succeeded; a failing day does not stop the days after it.
C19_RangePerDay ==
    (last.op = "FetchHistoricalRates"
     /\ last.in.request.StartDate <= last.in.request.EndDate) =>
        LET first == last.in.request.StartDate \div TicksPerDay
            final == last.in.request.EndDate \div TicksPerDay
            pair  == [BaseCurrency |-> last.in.request.BaseCurrency,
                      TargetCurrency |-> last.in.request.TargetCurrency]
        IN  /\ last.err = Nil
            /\ last.out # Nil
            /\ Len(last.calls) = final - first + 1
            /\ \A i \in DOMAIN last.calls :
                   last.calls[i] = [fn |-> "http.historical", arg |-> first + i - 1]
            /\ DOMAIN last.out[1].Rates =
                   {d \in first..final : DaySucceeded(last.in.respOf[d], pair)}
            /\ \A d \in DOMAIN last.out[1].Rates :
                   last.out[1].Rates[d].Date \div TicksPerDay = d

\* C19 witness: the first day of a range failed and a later day is in the result
C19_Witness ==
    /\ last.op = "FetchHistoricalRates"
    /\ last.err = Nil
    /\ last.in.request.StartDate < last.in.request.EndDate
    /\ last.in.respOf[last.in.request.StartDate \div TicksPerDay].outcome # "ok"
    /\ Len(last.calls) >= 2
    /\ DOMAIN last.out[1].Rates = {last.in.request.EndDate \div TicksPerDay}

\* a conversion request that passes every validation
ValidConversion(l) ==
    /\ l.op = "ConvertCurrency"
    /\ ~BadCurrency(l)
    /\ l.in.Amount > 0
    /\ l.in.Date = ZeroTime \/ ~TooOld(l.in.Date)

\* the calls of the step to the service's own rate operations
ServiceCalls(l) ==
    {i \in DOMAIN l.calls : l.calls[i].fn \in {"service.GetLatestRate", "service.GetHistoricalRate"}}

\* the rate the step resolved: the one it wrote to the cache, or else the one its lookup hit
ResolvedRate(l) ==
    IF Called(l, "cache.Set")
    THEN (CHOOSE i \in DOMAIN l.calls : l.calls[i].fn = "cache.Set")
    ELSE 0

\* C20: convertCurrency on a valid request resolves the rate through getHistoricalRate when
\* a date is supplied and through getLatestRate when none is (never both); on success
\* fromAmount = amount, toAmount = amount * rate.rate, rate = rate.rate and date = rate.date
\* for the resolved rate; on a resolution error it returns that error, wrapped once as
\* ExternalAPIFailure by the rate operation, and no result.
C20_ConvertResolution ==
    ValidConversion(last) =>
        /\ ServiceCalls(last) = {1}
        /\ last.calls[1].fn = (IF last.in.Date = ZeroTime THEN "service.GetLatestRate"
                                                          ELSE "service.GetHistoricalRate")
        /\ last.calls[2].fn = "cache.Get"
        /\ last.err = Nil =>
               LET rate == IF ResolvedRate(last) # 0
                           THEN last.calls[ResolvedRate(last)].arg
                           ELSE cacheMap[last.calls[2].arg]
               IN  /\ Len(last.out) = 1
                   /\ last.out[1].FromCurrency = last.in.FromCurrency
                   /\ last.out[1].ToCurrency = last.in.ToCurrency
                   /\ last.out[1].FromAmount = last.in.Amount
                   /\ last.out[1].Rate = rate.Rate
                   /\ last.out[1].Date = rate.Date
                   /\ last.out[1].ToAmount.d # 0
                   /\ last.out[1].ToAmount.n * rate.Rate.d
                          = last.in.Amount * rate.Rate.n * last.out[1].ToAmount.d
        /\ last.err # Nil =>
               /\ last.out = Nil
               /\ \E i \in DOMAIN last.calls :
                      /\ last.calls[i].fn = "repo.returned"
                      /\ last.calls[i].arg # Nil
                      /\ last.err = <<[is |-> {"ErrExternalAPIFailure"},
                                       msg |-> <<"external API failure">>
                                                   \o last.calls[i].arg[1].msg]>>

\* C20 witness: a dated conversion of 3 units was resolved through getHistoricalRate from
\* the provider at rate 2 and returned 6
C20_Witness ==
    /\ ValidConversion(last)
    /\ last.in.Date # ZeroTime
    /\ last.in.Amount = 3
    /\ last.err = Nil
    /\ Called(last, "http.historical")
    /\ last.out[1].ToAmount = [n |-> 6, d |-> 1]
    /\ last.out[1].Date = last.in.Date

\* the repository fetched a quote table and its extractor did not find a quote of the pair
MissingQuote(l) ==
    \E i \in DOMAIN l.calls :
        /\ l.calls[i].fn = "repo.returned"
        /\ NotFoundError(l.calls[i].arg)

\* C21: when the provider's quote table is fetched but lacks a quote the pair needs,
\* getLatestRate and getHistoricalRate return an error that is ExternalAPIFailure and in
\* which errors.Is finds RateNotFound, return no rate and do not write the cache.
C21_MissingQuoteWrapsRateNotFound ==
    (last.op \in {"GetLatestRate", "GetHistoricalRate"} /\ MissingQuote(last))
        => /\ ErrorIs(last.err, "ErrExternalAPIFailure")
           /\ ErrorIs(last.err, "ErrRateNotFound")
           /\ last.out = Nil
           /\ ~Called(last, "cache.Set")

---------------------------------------------------------------------------
(* Properties of the background refresher, checked under SpecRefresher *)

\* the step is the refresher taking a tick from its ticker and starting a refreshRates run
TickRunStarts == refresher = "select" /\ tickerC = 1 /\ tickerC' = 0

\* C22: once the cancellation has been raised, the refresher in its loop starts no further
\* refreshRates run, even when a tick is pending in the ticker's channel.
C22_NoRunAfterCancel ==
    [][ctxDone => ~TickRunStarts]_vars

\* the step is the run the refresher makes at startup
StartupRunStarts == refresher = "startup" /\ refresher' # "startup"

\* C23: the refresher makes one refreshRates run at start, before there is a ticker to wait
\* for, and afterwards every run takes exactly one tick from the ticker; a run that fails
\* leaves the refresher in its loop; and a tick that is pending while shutdown has not been
\* signalled leads to a run.
C23_RunAtStartAndPerTick ==
    /\ [][/\ refresher = "startup" => tickerC = NoTicker
          /\ StartupRunStarts
                 => (last'.op = "refreshRates" /\ last'.in.trigger = "startup"
                     /\ refresher' = "select" /\ tickerC' = 0)
          /\ (last'.op = "refreshRates" /\ last' # last)
                 => (StartupRunStarts \/ TickRunStarts)
          /\ ((StartupRunStarts \/ TickRunStarts) /\ last'.err # Nil)
                 => refresher' = "select"
          /\ tickerC' < tickerC => (TickRunStarts /\ last'.op = "refreshRates")]_vars
    /\ (refresher = "select" /\ tickerC = 1 /\ ~ctxDone) ~> (tickerC = 0 \/ ctxDone)

\* C23 witness: a run triggered by the second tick failed at the provider, and the refresher,
\* not cancelled, is back in its select
C23_Witness ==
    /\ last.op = "refreshRates"
    /\ last.in.trigger = "tick"
    /\ ErrorIs(last.err, "ErrExternalAPIFailure")
    /\ now = 2
    /\ refresher = "select"
    /\ tickerC = 0
    /\ ~ctxDone

---------------------------------------------------------------------------
(* Properties of the service asked for equal currencies, checked under SpecSamePair *)

\* the pair a call to the cache or to the repository names
PairOfCall(call) ==
    CASE call.fn = "cache.Get" -> Pair(call.arg[1], call.arg[2])
      [] call.fn = "repo.FetchLatestRate" -> call.arg
      [] call.fn = "repo.FetchHistoricalRate" -> call.arg[1]
      [] call.fn = "repo.FetchHistoricalRates" ->
             Pair(call.arg.BaseCurrency, call.arg.TargetCurrency)

\* C24: in no operation of the service does a cache lookup or a provider call name a pair
\* whose base equals its target.
C24_NeverSamePair ==
    \A i \in DOMAIN last.calls :
        last.calls[i].fn \in {"cache.Get", "repo.FetchLatestRate", "repo.FetchHistoricalRate",
                              "repo.FetchHistoricalRates"}
            => PairOfCall(last.calls[i]).BaseCurrency # PairOfCall(last.calls[i]).TargetCurrency

\* UTC midnight of the calendar day of d
Midnight(d) == (d \div TicksPerDay) * TicksPerDay

\* C25: getHistoricalRate on a valid request looks the cache up under (pair, date at UTC
\* midnight); on a miss it calls the provider's FetchHistoricalRate with that midnight, the
\* rate it returns carries exactly that date and is stored under the same key, so that the
\* same request repeated at once has the cache lookup as its only call.
C25_HistoricalNormalizedKey ==
    [][(last'.op = "GetHistoricalRate" /\ ~BadCurrency(last') /\ ~TooOld(last'.in.date))
       => LET pair == Pair(last'.in.from, last'.in.to)
              nd   == Midnight(last'.in.date)
              key  == <<last'.in.from, last'.in.to, nd \div TicksPerDay>>
              hit  == FreshEntry(cacheMap, now, pair, nd)
          IN  /\ last'.calls[1] = [fn |-> "cache.Get", arg |-> key]
              /\ hit => (Len(last'.calls) = 1 /\ last'.out = <<cacheMap[key]>>)
              /\ ~hit => /\ last'.calls[2] = [fn |-> "repo.FetchHistoricalRate",
                                               arg |-> <<pair, nd>>]
                         /\ last'.calls[3] = [fn |-> "http.historical",
                                               arg |-> nd \div TicksPerDay]
              /\ (~hit /\ last'.err = Nil)
                    => /\ last'.out[1].Date = nd
                       /\ key \in DOMAIN cacheMap'
                       /\ cacheMap'[key] = last'.out[1]
                       /\ \A resp \in SvcResponses :
                              LET again == SvcGetHistoricalRate(cacheMap', latestRates', now,
                                                                last'.in.from, last'.in.to,
                                                                last'.in.date, resp, Nil)
                              IN  /\ again.calls = <<[fn |-> "cache.Get", arg |-> key]>>
                                  /\ again.rate = last'.out
                                  /\ again.err = Nil]_vars

\* C25 witness: a historical rate asked for with a time of day missed the cache, was fetched
\* for the midnight of that day and is stored under the day's key
C25_Witness ==
    /\ last.op = "GetHistoricalRate"
    /\ last.in.date # Midnight(last.in.date)
    /\ last.err = Nil
    /\ Called(last, "http.historical")
    /\ last.out[1].Date = Midnight(last.in.date)
    /\ cacheMap[<<last.in.from, last.in.to, last.in.date \div TicksPerDay>>] = last.out[1]

---------------------------------------------------------------------------
(* Frame properties of the Rate Cache, checked under SpecCache *)

\* C26: a get never changes the cache: hit or miss, the stored entries after the call are
\* the ones before it; an entry found expired stays stored.
C26_GetLeavesCache ==
    [][last'.op = "Get" => cacheMap' = cacheMap]_vars

\* C26 witness: a get reported a miss for an entry that is older than the TTL, and the entry
\* is still stored
C26_Witness ==
    /\ last.op = "Get"
    /\ ~last.out.found
    /\ SlotOf(last.in.pair.BaseCurrency, last.in.pair.TargetCurrency, last.in.date)
           \in DOMAIN cacheMap
    /\ now - cacheMap[SlotOf(last.in.pair.BaseCurrency, last.in.pair.TargetCurrency,
                              last.in.date)].LastUpdated > cacheTTL

\* C27: set(rate) returns no error and is unconditional: afterwards the entry under
\* (rate.base, rate.target, rate.date) is exactly rate, whatever was stored there, newer or
\* not; every entry under another key is unchanged; and, the sets being serialised by the
\* write lock, the entry of a key is the rate of the set that executed last.
C27_SetUnconditional ==
    [][last'.op = "Set"
       => LET rate == last'.in
              key  == SlotOf(rate.BaseCurrency, rate.TargetCurrency, rate.Date)
          IN  /\ last'.err = Nil
              /\ DOMAIN cacheMap' = DOMAIN cacheMap \cup {key}
              /\ cacheMap'[key] = rate
              /\ \A k \in DOMAIN cacheMap \ {key} : cacheMap'[k] = cacheMap[k]
              /\ lastSet' = <<rate>>]_vars

\* C27 witness: a rate computed before the clock's instant was set and is the entry of its
\* key, next to a newer entry under another key
C27_Witness ==
    /\ last.op = "Set"
    /\ last.in.LastUpdated < now
    /\ cacheMap[SlotOf(last.in.BaseCurrency, last.in.TargetCurrency, last.in.Date)] = last.in
    /\ \E k \in DOMAIN cacheMap : cacheMap[k].LastUpdated > last.in.LastUpdated

\* C28: clearExpired removes exactly the entries with now - lastUpdated > TTL and leaves the
\* others as they are; an entry is removed if and only if a get for its key at the same
\* instant reports a miss.
C28_SweepBoundary ==
    [][last'.op = "ClearExpired"
       => /\ DOMAIN cacheMap' = {k \in DOMAIN cacheMap : now - cacheMap[k].LastUpdated <= cacheTTL}
          /\ \A k \in DOMAIN cacheMap' : cacheMap'[k] = cacheMap[k]
          /\ \A k \in DOMAIN cacheMap :
                 k \notin DOMAIN cacheMap'
                     <=> ~CacheGet(cacheMap, now, Pair(k[1], k[2]), AddDays(0, k[3])).found]_vars

\* C28 witness: a sweep removed an entry and kept one whose age is exactly the TTL
C28_Witness ==
    /\ last.op = "ClearExpired"
    /\ last.out >= 1
    /\ \E k \in DOMAIN cacheMap : now - cacheMap[k].LastUpdated = cacheTTL

\* the memo holds every ordered pair of distinct supported currencies
Complete(m) == DistinctPairs \subseteq DOMAIN m

\* the step is a refreshRates run of the refresher
RunStarts == StartupRunStarts \/ TickRunStarts

\* C29: a refreshRates run that succeeds on a quote table with all four non-USD quotes
\* leaves the memo complete, and from then until the next run starts the memo stays
\* complete and getLatestRate for every ordered pair of distinct supported currencies
\* succeeds without a fetch from the provider's endpoint, whatever the Rate Cache holds and
\* whatever the endpoint would answer.
C29_RefreshServesAllPairs ==
    [][/\ (/\ RunStarts
           /\ last'.err = Nil
           /\ \A c \in CurrencyCodes \ {"USD"} : HasQuote(last'.in.resp.quotes, c))
              => Complete(latestRates')
       /\ (Complete(latestRates) /\ ~RunStarts)
              => /\ Complete(latestRates')
                 /\ last'.op = "GetLatestRate"
                        => /\ last'.err = Nil
                           /\ last'.out # Nil
                           /\ ~Called(last', "http.live")
                 /\ \A p \in DistinctPairs, resp \in SvcResponses :
                        LET r == SvcGetLatestRate(cacheMap, latestRates, now, p[1], p[2],
                                                  resp, Nil)
                        IN  /\ r.err = Nil
                            /\ r.rate # Nil
                            /\ \A i \in DOMAIN r.calls : r.calls[i].fn # "http.live"]_vars

\* C29 witness: after a refresh a cross rate that the Rate Cache did not hold was asked for
\* and came from the provider's memo, with no fetch
C29_Witness ==
    /\ last.op = "GetLatestRate"
    /\ last.in.from = INR /\ last.in.to = EUR
    /\ Complete(latestRates)
    /\ Called(last, "repo.FetchLatestRate")
    /\ ~Called(last, "http.live")
    /\ last.err = Nil
    /\ last.out # Nil

---------------------------------------------------------------------------
(* The write-back of the cache-aside path, checked under Spec *)

\* C30: after a getLatestRate that missed the Rate Cache and returned a rate, the same
\* request issued at once (same instant, nothing written or swept in between) is served
\* from the Rate Cache: the cache lookup is its only call and it returns the same rate.
C30_WriteBackHit ==
    (/\ last.op = "GetLatestRate"
     /\ last.err = Nil
     /\ Called(last, "repo.FetchLatestRate"))
    => \A resp \in SvcResponses :
           LET again == SvcGetLatestRate(cacheMap, latestRates, now, last.in.from, last.in.to,
                                         resp, Nil)
           IN  /\ Len(again.calls) = 1
               /\ again.calls[1].fn = "cache.Get"
               /\ again.rate = last.out
               /\ again.err = Nil

---------------------------------------------------------------------------
(* the latest-rate memo under concurrent calls: one goroutine runs RefreshRates of the
   provider client, the others run FetchLatestRate.  A step is what a goroutine does
   between two points where another may run: a section under e.mutex, or the HTTP exchange.
   The provider publishes a new quote table at every tick of the clock: the table fetched at
   time t quotes every currency at t + 1, so that a rate tells the table it was computed from. *)

TableAt(t) == [k \in {rateKey(c) : c \in {INR, EUR, JPY, GBP}} |-> t + 1]

\* what a fetch at time t may get: the table of that time, or a failure
RaceResponses(t) == Responses({TableAt(t)}, {"status"})

RacePairs == {Pair(USD, INR), Pair(INR, USD)}

\* the pairs of the nested loops of RefreshRates, in the order of the loops
RefreshOrder ==
    LET all == [n \in 1..(Len(SupportedCurrencies) * Len(SupportedCurrencies)) |->
                   Pair(SupportedCurrencies[((n - 1) \div Len(SupportedCurrencies)) + 1],
                        SupportedCurrencies[((n - 1) % Len(SupportedCurrencies)) + 1])]
        differ(p) == p.BaseCurrency # p.TargetCurrency
    IN  SelectSeq(all, differ)

\* the goroutine of the refresher, and the goroutine of a request
Refresher == 1
Fetchers == {2}

\* the provider publishes its next table
ProviderPublishes ==
    /\ now < MaxNow
    /\ now' = now + 1
    /\ UNCHANGED <<refresher, tickerC, ctxDone, cacheMap, latestRates, last, lastSet, mutex, pc>>

\* RefreshRates is called
RefreshCalled ==
    /\ pc[Refresher].at \in {"idle", "returned"}
    /\ pc' = [pc EXCEPT ![Refresher] = [op |-> "RefreshRates", at |-> "clear", arg |-> <<>>,
                                         ret |-> <<>>]]
    /\ UNCHANGED <<refresher, tickerC, ctxDone, now, cacheMap, latestRates, last, lastSet, mutex>>

\* e.mutex.Lock(); e.latestRates = make(...); e.mutex.Unlock()
RefreshClears ==
    /\ pc[Refresher].at = "clear"
    /\ latestRates' = EmptyMap
    /\ pc' = [pc EXCEPT ![Refresher].at = "fetch"]
    /\ UNCHANGED <<refresher, tickerC, ctxDone, now, cacheMap, last, lastSet, mutex>>

\* rates, err := e.fetchAllLatestRates(ctx); a failure returns at once
RefreshFetches ==
    /\ pc[Refresher].at = "fetch"
    /\ \E resp \in RaceResponses(now) :
           \E f \in {fetchAllLatestRates(resp)} :
               pc' = [pc EXCEPT ![Refresher] =
                         IF f.err # Nil
                         THEN [op |-> "RefreshRates", at |-> "returned", arg |-> <<>>,
                               ret |-> [err |-> WrapRefresh(f.err), fetchedAt |-> now]]
                         ELSE [op |-> "RefreshRates", at |-> "loop",
                               arg |-> [quotes |-> f.quotes, k |-> 1],
                               ret |-> [err |-> Nil, fetchedAt |-> now]]]
    /\ UNCHANGED <<refresher, tickerC, ctxDone, now, cacheMap, latestRates, last, lastSet, mutex>>

\* one pass of the inner loop: extractRate for the next pair, which writes the memo under the
\* lock; after the last pair RefreshRates returns nil
RefreshExtracts ==
    /\ pc[Refresher].at = "loop"
    /\ latestRates' = extractRate(pc[Refresher].arg.quotes, RefreshOrder[pc[Refresher].arg.k],
                                  now, latestRates).memo
    /\ pc' = [pc EXCEPT ![Refresher] =
                  IF pc[Refresher].arg.k = Len(RefreshOrder)
                  THEN [op |-> "RefreshRates", at |-> "returned", arg |-> <<>>,
                        ret |-> pc[Refresher].ret]
                  ELSE [op |-> "RefreshRates", at |-> "loop",
                        arg |-> [quotes |-> pc[Refresher].arg.quotes,
                                 k |-> pc[Refresher].arg.k + 1],
                        ret |-> pc[Refresher].ret]]
    /\ UNCHANGED <<refresher, tickerC, ctxDone, now, cacheMap, last, lastSet, mutex>>

\* FetchLatestRate is called for a pair
FetchCalled ==
    \E th \in Fetchers, pair \in RacePairs :
        /\ pc[th].at = "idle"
        /\ pc' = [pc EXCEPT ![th] = [op |-> "FetchLatestRate", at |-> "memo", arg |-> pair,
                                      ret |-> <<>>]]
        /\ UNCHANGED <<refresher, tickerC, ctxDone, now, cacheMap, latestRates, last, lastSet,
                       mutex>>

\* the lookup of the memo under the read lock: a record that exists is returned
FetchReadsMemo ==
    \E th \in Fetchers :
        /\ pc[th].at = "memo"
        /\ pc' = [pc EXCEPT ![th] = IF memoKey(pc[th].arg) \in DOMAIN latestRates
                                     THEN Idle
                                     ELSE [op |-> "FetchLatestRate", at |-> "fetch",
                                           arg |-> pc[th].arg, ret |-> <<>>]]
        /\ UNCHANGED <<refresher, tickerC, ctxDone, now, cacheMap, latestRates, last, lastSet,
                       mutex>>

\* rates, err := e.fetchAllLatestRates(ctx); a failure returns at once
FetchFetches ==
    \E th \in Fetchers :
        /\ pc[th].at = "fetch"
        /\ \E resp \in RaceResponses(now) :
               \E f \in {fetchAllLatestRates(resp)} :
                   pc' = [pc EXCEPT ![th] =
                             IF f.err # Nil
                             THEN Idle
                             ELSE [op |-> "FetchLatestRate", at |-> "extract",
                                   arg |-> pc[th].arg, ret |-> f.quotes]]
        /\ UNCHANGED <<refresher, tickerC, ctxDone, now, cacheMap, latestRates, last, lastSet,
                       mutex>>

\* e.extractRate(rates, pair): the record is written to the memo under the lock and returned
FetchExtracts ==
    \E th \in Fetchers :
        /\ pc[th].at = "extract"
        /\ latestRates' = extractRate(pc[th].ret, pc[th].arg, now, latestRates).memo
        /\ pc' = [pc EXCEPT ![th] = Idle]
        /\ UNCHANGED <<refresher, tickerC, ctxDone, now, cacheMap, last, lastSet, mutex>>

NextMemoRace ==
    \/ ProviderPublishes
    \/ RefreshCalled
    \/ RefreshClears
    \/ RefreshFetches
    \/ RefreshExtracts
    \/ FetchCalled
    \/ FetchReadsMemo
    \/ FetchFetches
    \/ FetchExtracts

SpecMemoRace == Init /\ [][NextMemoRace]_vars

\* the record of a pair with USD on one side was computed from a table fetched at time t or
\* later: such a table quotes every currency at t + 1 or more
FromTableSince(rate, t) ==
    IF rate.BaseCurrency = USD THEN rate.Rate.n >= (t + 1) * rate.Rate.d
    ELSE IF rate.TargetCurrency = USD THEN rate.Rate.d >= (t + 1) * rate.Rate.n
    ELSE TRUE

\* C31: under every interleaving of RefreshRates with concurrent FetchLatestRate calls, once
\* a successful RefreshRates has returned, every record of the memo was computed from the
\* table that refresh fetched or from a later one.
C31_NoStaleMemoAfterRefresh ==
    (/\ pc[Refresher].op = "RefreshRates"
     /\ pc[Refresher].at = "returned"
     /\ pc[Refresher].ret.err = Nil)
    => \A key \in DOMAIN latestRates :
           FromTableSince(latestRates[key], pc[Refresher].ret.fetchedAt)

---------------------------------------------------------------------------
(* the service between its two endpoints: the live endpoint quotes the dollar at LiveQuote
   rupees and the historical endpoint, for every day, at HistoricalQuote, so that a rate
   tells the endpoint it came from *)

LiveQuote == 2
HistoricalQuote == 3

LiveResponses == Responses({[k \in {rateKey(INR)} |-> LiveQuote]}, {"status"})
HistoricalResponses == Responses({[k \in {rateKey(INR)} |-> HistoricalQuote]}, {"status"})

EndpointPairs == {Pair(USD, INR), Pair(INR, USD)}

\* today and yesterday, at midnight
EndpointDates(t) == {Truncate(t), AddDays(Truncate(t), -1)}

LatestFromLive ==
    \E pair \in EndpointPairs, resp \in LiveResponses :
        \E r \in {SvcGetLatestRate(cacheMap, latestRates, now, pair.BaseCurrency,
                                  pair.TargetCurrency, resp, Nil)} :
        /\ cacheMap' = r.cache
        /\ latestRates' = r.memo
        /\ last' = Done("GetLatestRate",
                        [from |-> pair.BaseCurrency, to |-> pair.TargetCurrency],
                        r.rate, r.err, r.calls)
        /\ UNCHANGED <<refresher, tickerC, ctxDone, mutex, pc, now, lastSet>>

HistoricalFromArchive ==
    \E pair \in EndpointPairs, date \in EndpointDates(now), resp \in HistoricalResponses :
        \E r \in {SvcGetHistoricalRate(cacheMap, latestRates, now, pair.BaseCurrency,
                                      pair.TargetCurrency, date, resp, Nil)} :
        /\ cacheMap' = r.cache
        /\ latestRates' = r.memo
        /\ last' = Done("GetHistoricalRate",
                        [from |-> pair.BaseCurrency, to |-> pair.TargetCurrency,
                         date |-> date],
                        r.rate, r.err, r.calls)
        /\ UNCHANGED <<refresher, tickerC, ctxDone, mutex, pc, now, lastSet>>

NextEndpoints == Tick \/ LatestFromLive \/ HistoricalFromArchive

SpecEndpoints == Init /\ [][NextEndpoints]_vars

\* the rate of the pair computed from a table that quotes the dollar at q rupees
RateFromQuote(from, q) == IF from = USD THEN F(q) ELSE FDiv(F(1), F(q))

\* C32: every rate getHistoricalRate returns was produced from the historical endpoint's
\* table, also for today's date after getLatestRate has cached the pair, and every rate
\* getLatestRate returns was produced from the live endpoint's table.
C32_EndpointsKeptApart ==
    /\ (last.op = "GetHistoricalRate" /\ last.err = Nil)
           => last.out[1].Rate = RateFromQuote(last.in.from, HistoricalQuote)
    /\ (last.op = "GetLatestRate" /\ last.err = Nil)
           => last.out[1].Rate = RateFromQuote(last.in.from, LiveQuote)

---------------------------------------------------------------------------
(* The date of a latest rate, checked under Spec *)

\* C33: every rate a successful getLatestRate returns carries date = today, the UTC day of
\* the call, whether it came from the Rate Cache, from the provider's memo or from a fetch.
C33_LatestRateIsToday ==
    (last.op = "GetLatestRate" /\ last.err = Nil)
        => last.out[1].Date = Midnight(now)

---------------------------------------------------------------------------
(* A refresh of the provider that fails, checked under SpecRefresh *)

\* C34: a RefreshRates of the provider whose table fetch fails returns an error and leaves
\* the memo empty, whatever was memoized before the call, so that the next FetchLatestRate,
\* for any pair, sends a request to the provider.
C34_FailedRefreshEmptiesMemo ==
    (last.op = "ProviderRefreshRates" /\ last.in.resp.outcome # "ok")
        => /\ last.err # Nil
           /\ latestRates = EmptyMap
           /\ \A p \in DistinctPairs, resp \in AllRefreshResponses :
                  LET next == RepoFetchLatestRate(latestRates, now, Pair(p[1], p[2]), resp)
                  IN  \E i \in DOMAIN next.calls : next.calls[i].fn = "http.live"

\* C34 witness: a refresh that could not send its request was called on a memo of 20 records
\* and left it empty
C34_Witness ==
    /\ last.op = "ProviderRefreshRates"
    /\ last.in.resp.outcome = "transport"
    /\ Cardinality(DOMAIN last.in.memo) = 20
    /\ last.err # Nil
    /\ latestRates = EmptyMap

---------------------------------------------------------------------------
(* the two extractors side by side, checked under SpecExtract *)

\* two results of extraction agree: both are the same error, or both are a record of the
\* same base, target and rate
SameExtraction(latest, historical) ==
    IF latest.err # Nil \/ historical.err # Nil
    THEN latest.err = historical.err /\ latest.rate = Nil /\ historical.rate = Nil
    ELSE /\ latest.rate[1].BaseCurrency = historical.rate[1].BaseCurrency
         /\ latest.rate[1].TargetCurrency = historical.rate[1].TargetCurrency
         /\ latest.rate[1].Rate = historical.rate[1].Rate

\* C35: on one quote table and one pair extractRate and extractHistoricalRate either both
\* fail with the error that names the same missing currency, or both succeed with the same
\* base, target and rate; the record of extractRate is dated today and is written to the
\* memo, the record of extractHistoricalRate is dated as asked and the memo stays as it was.
C35_ExtractorsAgree ==
    [][/\ last'.op = "extractRate" =>
            /\ \A date \in HistoricalDates(now) :
                  LET h == extractHistoricalRate(last'.in.quotes, last'.in.pair, date, now)
                  IN  /\ SameExtraction([rate |-> last'.out, err |-> last'.err], h)
                      /\ h.err = Nil => h.rate[1].Date = date
            /\ last'.err = Nil =>
                  /\ last'.out[1].Date = Truncate(now)
                  /\ latestRates' = Put(latestRates, memoKey(last'.in.pair), last'.out[1])
            /\ last'.err # Nil => latestRates' = latestRates
       /\ last'.op = "extractHistoricalRate" =>
            /\ SameExtraction(extractRate(last'.in.quotes, last'.in.pair, now, latestRates),
                              [rate |-> last'.out, err |-> last'.err])
            /\ last'.err = Nil => last'.out[1].Date = last'.in.date
            /\ latestRates' = latestRates]_vars

\* C35 witness: a cross rate of two quotes taken by extractHistoricalRate for an earlier day;
\* extractRate on the same table gives the same rate, dated today
C35_Witness ==
    /\ last.op = "extractHistoricalRate"
    /\ last.err = Nil
    /\ last.in.pair = Pair(INR, EUR)
    /\ last.in.quotes[rateKey(INR)] = 2
    /\ last.in.quotes[rateKey(EUR)] = 1
    /\ last.in.date # Truncate(now)
    /\ last.out[1].Date = last.in.date
    /\ LET x == extractRate(last.in.quotes, last.in.pair, now, latestRates)
       IN  /\ x.rate[1].Rate = last.out[1].Rate
           /\ x.rate[1].Date = Truncate(now)
           /\ x.memo # latestRates

\* C35 second case: both extractors fail on a cross pair whose two quotes are missing, and
\* name the base currency
C35_WitnessMissing ==
    /\ last.op = "extractRate"
    /\ last.in.pair = Pair(EUR, JPY)
    /\ rateKey(EUR) \notin DOMAIN last.in.quotes
    /\ rateKey(JPY) \notin DOMAIN last.in.quotes
    /\ last.err = RateNotFound(EUR)
    /\ extractHistoricalRate(last.in.quotes, last.in.pair, Truncate(now), now).err = last.err

---------------------------------------------------------------------------
(* historical requests and the latest-rate state, checked under Spec *)

LatestRateCalls == {"repo.FetchLatestRate", "http.live"}
RateCacheCalls == {"cache.Get", "cache.Set"}

\* C36: a GetHistoricalRate or GetHistoricalRates of the service leaves the memo of the
\* provider as it was and makes no latest-rate call; a GetHistoricalRates also leaves the Rate
\* Cache as it was and makes no Get and no Set on it.
C36_HistoricalLeavesLatestAlone ==
    [][/\ last'.op \in {"GetHistoricalRate", "GetHistoricalRates"} =>
            /\ latestRates' = latestRates
            /\ \A i \in DOMAIN last'.calls : last'.calls[i].fn \notin LatestRateCalls
       /\ last'.op = "GetHistoricalRates" =>
            /\ cacheMap' = cacheMap
            /\ \A i \in DOMAIN last'.calls : last'.calls[i].fn \notin RateCacheCalls]_vars

\* C36 witness: a range request that returned the rate of a day while the memo and the Rate
\* Cache hold a latest rate; the day it fetched is not in the cache
C36_Witness ==
    /\ last.op = "GetHistoricalRates"
    /\ last.err = Nil
    /\ DOMAIN last.out[1].Rates # {}
    /\ Called(last, "http.historical")
    /\ memoKey(Pair(USD, INR)) \in DOMAIN latestRates
    /\ cacheMap # EmptyMap
    /\ \A d \in DOMAIN last.out[1].Rates :
          <<last.in.BaseCurrency, last.in.TargetCurrency, d>> \notin DOMAIN cacheMap

====
